---------------------------- MODULE Spec2Model ----------------------------
(***************************************************************************)
(* Model of the bot-airline lifecycle handlers of admin-panel/app.py:      *)
(* reset_single_bot, reset_bots, create_bot, the helper                    *)
(* get_country_for_airline and the pure function determine_personality.    *)
(*                                                                         *)
(* The MySQL store is a record of tables, each table a set of rows.  `db`  *)
(* is the committed store, `tx` the view of the handler's connection       *)
(* (autocommit off): statements change tx, conn.commit() copies tx to db,  *)
(* conn.rollback() (or closing the connection) copies db back to tx.       *)
(* One handler runs at a time; every SQL statement that writes is a step,  *)
(* and any step inside a transaction may raise instead (StorageError).     *)
(***************************************************************************)
EXTENDS Integers, Sequences, FiniteSets, TLC

(***************************************************************************)
(* Bounds of the model.                                                    *)
(***************************************************************************)
\* handler invocations in one behaviour
MaxOps == 2
\* models priced below the ceiling in the large catalogue
NumCheap == 6

(***************************************************************************)
(* Program constants.                                                      *)
(***************************************************************************)
\* airline_type of a bot airline
BOT_TYPE == 2
\* price < 40000000
PRICE_CEILING == 40000000
\* min(5, len(cheap_models))
MAX_FLEET == 5
\* balance = '200000'
START_BALANCE == 200000
\* service_quality = 50.00
DEFAULT_SERVICE_QUALITY == 50
\* balance / 10000000.0
CASH_UNIT == 10000000

\* SQL NULL / Python None for a text value
NULL == "NULL"
\* Python None for a row id (ids start at 1, and the code tests ids for truth)
NULL_ID == 0

(***************************************************************************)
(* Names are sequences of characters, so that lower() and the substring    *)
(* test of get_country_for_airline are computed, not assumed.              *)
(***************************************************************************)
UpperToLower ==
  [c \in {"A","B","C","D","E","F","G","H","I","J","K","L","M","N","O","P","Q",
          "R","S","T","U","V","W","X","Y","Z"} |->
     CASE c = "A" -> "a" [] c = "B" -> "b" [] c = "C" -> "c" [] c = "D" -> "d"
       [] c = "E" -> "e" [] c = "F" -> "f" [] c = "G" -> "g" [] c = "H" -> "h"
       [] c = "I" -> "i" [] c = "J" -> "j" [] c = "K" -> "k" [] c = "L" -> "l"
       [] c = "M" -> "m" [] c = "N" -> "n" [] c = "O" -> "o" [] c = "P" -> "p"
       [] c = "Q" -> "q" [] c = "R" -> "r" [] c = "S" -> "s" [] c = "T" -> "t"
       [] c = "U" -> "u" [] c = "V" -> "v" [] c = "W" -> "w" [] c = "X" -> "x"
       [] c = "Y" -> "y" [] c = "Z" -> "z"]

\* str.lower()
Lower(s) ==
  [i \in 1..Len(s) |-> IF s[i] \in DOMAIN UpperToLower THEN UpperToLower[s[i]] ELSE s[i]]

\* `needle in hay` for strings
Contains(hay, needle) ==
  \E i \in 0..(Len(hay) - Len(needle)) :
     \A j \in 1..Len(needle) : hay[i + j] = needle[j]

\* AIRLINE_COUNTRY_MAP, in the order of the dict literal (the two non-ASCII
\* characters of the third key are written by their code points)
AIRLINE_COUNTRY_MAP == <<
    <<<<"A","e","r","o","f","l","o","t">>, "RU">>,
    <<<<"A","e","r","o","m","e","x","i","c","o">>, "MX">>,
    <<<<"A","e","r","o","m","U+221A","U+00A9","x","i","c","o">>, "MX">>,
    <<<<"A","i","r"," ","C","a","n","a","d","a">>, "CA">>,
    <<<<"A","i","r"," ","C","h","i","n","a">>, "CN">>,
    <<<<"A","i","r"," ","F","r","a","n","c","e">>, "FR">>,
    <<<<"A","i","r"," ","I","n","d","i","a">>, "IN">>,
    <<<<"A","m","e","r","i","c","a","n"," ","A","i","r","l","i","n","e","s">>, "US">>,
    <<<<"A","m","e","r","i","c","a","n"," ","S","u","p","e","r","s","o","n","i","c">>, "US">>,
    <<<<"C","a","p","i","t","a","l"," ","A","i","r","w","a","y","s">>, "US">>,
    <<<<"E","g","y","p","t","a","i","r">>, "EG">>,
    <<<<"E","u","r","o","W","i","n","g","s">>, "DE">>,
    <<<<"G","a","r","u","d","a"," ","I","n","d","o","n","e","s","i","a">>, "ID">>,
    <<<<"J","a","p","a","n"," ","A","i","r","l","i","n","e","s">>, "JP">>,
    <<<<"K","i","w","i"," ","A","i","r">>, "NZ">>,
    <<<<"L","A","T","A","M"," ","B","r","a","s","i","l">>, "BR">>,
    <<<<"M","e","d","i","F","l","i","g","h","t">>, "US">>,
    <<<<"M","i","n","e","r","a","l"," ","E","x","p","r","e","s","s">>, "US">>,
    <<<<"O","c","e","a","n"," ","F","r","e","i","g","h","t">>, "US">>,
    <<<<"P","a","c","i","f","i","c"," ","I","s","l","a","n","d">>, "US">>,
    <<<<"P","e","t","r","o","l","e","u","m"," ","A","i","r">>, "US">>,
    <<<<"Q","a","n","t","a","s">>, "AU">>,
    <<<<"S","c","a","n","d","i","n","a","v","i","a","n"," ","A","i","r","l","i","n","e","s">>, "DK">>,
    <<<<"T","e","c","h","C","o","n","n","e","c","t">>, "US">>,
    <<<<"T","u","r","k","i","s","h"," ","A","i","r","l","i","n","e","s">>, "TR">>,
    <<<<"V","i","e","t","n","a","m"," ","A","i","r","l","i","n","e","s">>, "VN">> >>

\* get_country_for_airline(name): the first entry, in dict order, whose key
\* lower-cased occurs in the lower-cased name; None when there is none
get_country_for_airline(name) ==
  LET hits == {k \in 1..Len(AIRLINE_COUNTRY_MAP) :
                 Contains(Lower(name), Lower(AIRLINE_COUNTRY_MAP[k][1]))}
  IN  IF hits = {} THEN NULL
      ELSE AIRLINE_COUNTRY_MAP[CHOOSE k \in hits : \A m \in hits : k <= m][2]

\* Python truth of a country code: None and '' are false
Truthy(code) == code # NULL /\ code # ""

(***************************************************************************)
(* determine_personality.  A Python argument is a record [kind, v]:        *)
(*   num      an int, float or Decimal of value v                          *)
(*   numstr   a string that float() parses to v                            *)
(*   none     None                                                         *)
(*   emptystr ''                                                           *)
(*   bad      a value float() raises ValueError or TypeError on ('abc')    *)
(* Values are whole numbers, so the float division balance / 10000000.0    *)
(* compared with 2 and 10 is computed by cross-multiplication.             *)
(***************************************************************************)
PyTruth(x) ==
  CASE x.kind = "num"      -> x.v # 0
    [] x.kind = "numstr"   -> TRUE
    [] x.kind = "none"     -> FALSE
    [] x.kind = "emptystr" -> FALSE
    [] x.kind = "bad"      -> TRUE

\* float(x) raises ValueError / TypeError
FloatRaises(x) == x.kind = "bad"

\* `float(x) if x else 0`
FloatOrZero(x) == IF PyTruth(x) THEN x.v ELSE 0

\* one raise inside the try block sends all three to the except branch
Coerced(balance, reputation, service_quality) ==
  IF FloatRaises(balance) \/ FloatRaises(reputation) \/ FloatRaises(service_quality)
  THEN [balance |-> 0, reputation |-> 0, service_quality |-> 0]
  ELSE [balance |-> FloatOrZero(balance),
        reputation |-> FloatOrZero(reputation),
        service_quality |-> FloatOrZero(service_quality)]

\* the if/elif chain on the coerced numbers
PersonalityOfSwapped(b, r, s) ==
  IF s > 70 THEN "PREMIUM"
  ELSE IF b < 2 * CASH_UNIT /\ r < 30 THEN "BUDGET"
  ELSE IF b > 10 * CASH_UNIT THEN "AGGRESSIVE"
  ELSE IF r > 70 THEN "CONSERVATIVE"
  ELSE IF s < 40 THEN "REGIONAL"
  ELSE "BALANCED"

PersonalityOf(b, r, s) ==
  IF s > 70 THEN "PREMIUM"
  ELSE IF b < 2 * CASH_UNIT /\ r < 30 THEN "BUDGET"
  ELSE IF r > 70 THEN "CONSERVATIVE"
  ELSE IF b > 10 * CASH_UNIT THEN "AGGRESSIVE"
  ELSE IF s < 40 THEN "REGIONAL"
  ELSE "BALANCED"

determine_personality(balance, reputation, service_quality) ==
  LET c == Coerced(balance, reputation, service_quality)
  IN  PersonalityOf(c.balance, c.reputation, c.service_quality)

(***************************************************************************)
(* The store.  A store is a record of tables; a table is a set of rows.    *)
(*   airline                [id, name, airline_type]                       *)
(*   airline_info           [airline, balance, service_quality,            *)
(*                           target_service_quality, reputation,           *)
(*                           country_code, initialized]                    *)
(*   link                   [id, airline]                                  *)
(*   link_assignment        [link, airplane]                               *)
(*   link_consumption       [link, cycle]                                  *)
(*   airplane               [id, model, owner, constructed_cycle,          *)
(*                           purchased_cycle, airplane_condition,          *)
(*                           depreciation_rate, value, is_sold,            *)
(*                           dealer_ratio, home, purchase_rate, version]   *)
(*   airplane_configuration [airplane]                                     *)
(*   airline_base           [rid, airport, airline, scale, founded_cycle,  *)
(*                           headquarter, country]                         *)
(*   airline_appeal         [airline, airport]                             *)
(*   airport                [id, iata, country_code, airport_size,         *)
(*                           population]                                   *)
(*   airplane_model         [id, price]                                    *)
(*   cycle                  a set of cycle numbers                         *)
(* rid is the identity of a base row (the table has no id column of its    *)
(* own): it tells a re-inserted row from the deleted row it replaces.      *)
(***************************************************************************)
Max(S) == CHOOSE x \in S : \A y \in S : y <= x

\* SELECT id FROM link WHERE airline = bot_id
LinkIds(t, bot_id) == {l.id : l \in {x \in t.link : x.airline = bot_id}}

\* SELECT id FROM airplane WHERE owner = bot_id
AirplaneIds(t, bot_id) == {a.id : a \in {x \in t.airplane : x.owner = bot_id}}

\* DELETE FROM link_assignment WHERE link IN (SELECT id FROM link WHERE airline = %s)
DeleteLinkAssignmentSkipped(t, bot_id) == t

DeleteLinkAssignment(t, bot_id) ==
  [t EXCEPT !.link_assignment = {r \in @ : r.link \notin LinkIds(t, bot_id)}]

\* DELETE FROM link_consumption WHERE link IN (SELECT id FROM link WHERE airline = %s)
DeleteLinkConsumption(t, bot_id) ==
  [t EXCEPT !.link_consumption = {r \in @ : r.link \notin LinkIds(t, bot_id)}]

\* a DELETE FROM link without its WHERE clause
DeleteLinkOfEveryAirline(t, bot_id) == [t EXCEPT !.link = {}]

\* DELETE FROM link WHERE airline = %s
DeleteLink(t, bot_id) == [t EXCEPT !.link = {r \in @ : r.airline # bot_id}]

\* DELETE FROM airplane_configuration WHERE airplane IN (SELECT id FROM airplane WHERE owner = %s)
DeleteAirplaneConfiguration(t, bot_id) ==
  [t EXCEPT !.airplane_configuration = {r \in @ : r.airplane \notin AirplaneIds(t, bot_id)}]

\* DELETE FROM airplane WHERE owner = %s
DeleteAirplaneUnsoldOnly(t, bot_id) ==
  [t EXCEPT !.airplane = {r \in @ : r.owner # bot_id \/ r.is_sold = 1}]

DeleteAirplane(t, bot_id) == [t EXCEPT !.airplane = {r \in @ : r.owner # bot_id}]

\* DELETE FROM airline_base WHERE airline = %s
DeleteAirlineBaseHqOnly(t, bot_id) ==
  [t EXCEPT !.airline_base = {r \in @ : r.airline # bot_id \/ r.headquarter = 0}]

DeleteAirlineBase(t, bot_id) == [t EXCEPT !.airline_base = {r \in @ : r.airline # bot_id}]

\* DELETE FROM airline_appeal WHERE airline = %s
DeleteAirlineAppeal(t, bot_id) == [t EXCEPT !.airline_appeal = {r \in @ : r.airline # bot_id}]

\* UPDATE airline_info SET balance = '200000', reputation = 0,
\*   service_quality = 50.00 [, country_code = %s] WHERE airline = %s
\* (country_code is set only in the branch `if country_code`)
UpdateAirlineInfo(t, bot_id, country_code) ==
  [t EXCEPT !.airline_info =
     {IF r.airline # bot_id THEN r
      ELSE [r EXCEPT !.balance = START_BALANCE,
                     !.reputation = 0,
                     !.service_quality = DEFAULT_SERVICE_QUALITY,
                     !.country_code = IF Truthy(country_code) THEN country_code ELSE @]
        : r \in @}]

\* SELECT id FROM airport WHERE country_code = %s ORDER BY population DESC LIMIT 1
BestAirportsByPopulation(t, country_code) ==
  LET cand == {a \in t.airport : a.country_code = country_code}
  IN  {a.id : a \in {x \in cand : \A y \in cand : y.population <= x.population}}

\* SELECT id FROM airport WHERE country_code = %s
\*   ORDER BY airport_size DESC, population DESC LIMIT 1
\* The rows that may come first: no other row of the country sorts before
\* them.  Rows equal on both keys are in an order SQL leaves open.
BestAirports(t, country_code) ==
  LET cand == {a \in t.airport : a.country_code = country_code}
  IN  {a.id : a \in {x \in cand :
         \A y \in cand :
            \/ y.airport_size < x.airport_size
            \/ (y.airport_size = x.airport_size /\ y.population <= x.population)}}

\* SELECT id, country_code FROM airport WHERE iata = %s  (fetchone)
AirportsByIata(t, iata) == {a \in t.airport : a.iata = iata}

\* SELECT MAX(cycle) FROM cycle;  current_cycle = that if it is truthy else 0
CurrentCycle(t) == IF t.cycle = {} THEN 0 ELSE Max(t.cycle)

\* SELECT id, name, price FROM airplane_model WHERE price < 40000000 ORDER BY price
CheapModelsInclusive(t) == {m \in t.airplane_model : m.price <= PRICE_CEILING}

CheapModels(t) == {m \in t.airplane_model : m.price < PRICE_CEILING}

\* min(5, len(cheap_models))
SampleSize(cheap_models) ==
  IF Cardinality(cheap_models) < MAX_FLEET THEN Cardinality(cheap_models) ELSE MAX_FLEET

\* random.sample(cheap_models, k): the possible samples, as sets of rows.  The
\* order of a sample only decides which new airplane id goes with which model;
\* the insert loop below takes the rows of the sample by ascending model id.
Samples(cheap_models) ==
  {S \in SUBSET cheap_models : Cardinality(S) = SampleSize(cheap_models)}

\* INSERT INTO airline_base (airport, airline, scale, founded_cycle, headquarter, country)
\*   VALUES (%s, %s, 1, %s, 1, %s)
NewBase(rid, airport, airline, current_cycle, country_code) ==
  [rid |-> rid, airport |-> airport, airline |-> airline, scale |-> 1,
   founded_cycle |-> current_cycle, headquarter |-> 1, country |-> country_code]

\* INSERT INTO airplane (model, owner, constructed_cycle, purchased_cycle,
\*   airplane_condition, depreciation_rate, value, is_sold, dealer_ratio, home,
\*   purchase_rate, version) VALUES (%s, %s, %s, %s, 100.0, 0, %s, 0, 1.0, %s, 1.0, 0)
NewAirplane(id, model, owner, current_cycle, hq_airport) ==
  [id |-> id, model |-> model.id, owner |-> owner,
   constructed_cycle |-> current_cycle, purchased_cycle |-> current_cycle,
   airplane_condition |-> 100, depreciation_rate |-> 0, value |-> model.price,
   is_sold |-> 0, dealer_ratio |-> 1, home |-> hq_airport, purchase_rate |-> 1,
   version |-> 0]

\* INSERT INTO airline_info (airline, balance, service_quality,
\*   target_service_quality, reputation, country_code, initialized)
\*   VALUES (%s, 200000, 50.00, 50, 0, %s, 1)
NewAirlineInfo(airline_id, country_code) ==
  [airline |-> airline_id, balance |-> START_BALANCE,
   service_quality |-> DEFAULT_SERVICE_QUALITY,
   target_service_quality |-> DEFAULT_SERVICE_QUALITY, reputation |-> 0,
   country_code |-> country_code, initialized |-> 1]

\* an INSERT INTO airline that leaves airline_type at 0, a player airline
NewAirlineAsPlayer(id, name) == [id |-> id, name |-> name, airline_type |-> 0]

\* INSERT INTO airline (name, airline_type) VALUES (%s, 2)
NewAirline(id, name) == [id |-> id, name |-> name, airline_type |-> BOT_TYPE]

\* What other connections see of the store while a transaction is open and
\* has brought the connection's view to `working`: `conn.autocommit = False`,
\* so the committed rows only.
OthersSeeAutocommit(committed, working) == working

OthersSee(committed, working) == committed

\* conn.rollback(), or the close of a connection with an open transaction:
\* the connection sees the committed store again
RollbackKeepsWrites(committed, working) == working

Rollback(committed, working) == committed

\* the batch loop of reset_bots holds no commit: what is committed after one
\* bot's statements is what was committed before them
CommittedAfterBotPerEntity(committed, working) == working

CommittedAfterBot(committed, working) == committed

(***************************************************************************)
(* Initial stores.  The airport table and three game states the handlers   *)
(* can be called on; every link_assignment, link_consumption and           *)
(* airplane_configuration row refers to an existing link or airplane.      *)
(***************************************************************************)
Airports ==
  { [id |-> 1, iata |-> "JFK", country_code |-> "US", airport_size |-> 8, population |-> 100],
    [id |-> 2, iata |-> "LAX", country_code |-> "US", airport_size |-> 8, population |-> 90],
    [id |-> 3, iata |-> "BNA", country_code |-> "US", airport_size |-> 5, population |-> 500],
    [id |-> 4, iata |-> "SYD", country_code |-> "AU", airport_size |-> 6, population |-> 50],
    [id |-> 5, iata |-> "MEL", country_code |-> "AU", airport_size |-> 6, population |-> 50] }

\* two models below the ceiling, one priced exactly at it, one above
SmallCatalogue ==
  { [id |-> 1, price |-> 15000000], [id |-> 2, price |-> PRICE_CEILING - 1],
    [id |-> 3, price |-> PRICE_CEILING], [id |-> 4, price |-> 65000000] }

\* no model below the ceiling
DearCatalogue == { [id |-> 1, price |-> PRICE_CEILING], [id |-> 2, price |-> 65000000] }

\* NumCheap models below the ceiling and one priced exactly at it
LargeCatalogue ==
  { [id |-> i, price |-> PRICE_CEILING - i] : i \in 1..NumCheap }
    \cup { [id |-> NumCheap + 1, price |-> PRICE_CEILING] }

Plane(id, model, owner, cycle, condition, value, sold, home) ==
  [id |-> id, model |-> model, owner |-> owner, constructed_cycle |-> cycle,
   purchased_cycle |-> cycle, airplane_condition |-> condition,
   depreciation_rate |-> 3, value |-> value, is_sold |-> sold, dealer_ratio |-> 1,
   home |-> home, purchase_rate |-> 1, version |-> 0]

Info(airline, balance, service_quality, reputation, country_code) ==
  [airline |-> airline, balance |-> balance, service_quality |-> service_quality,
   target_service_quality |-> service_quality, reputation |-> reputation,
   country_code |-> country_code, initialized |-> 1]

Base(rid, airport, airline, scale, founded_cycle, headquarter, country) ==
  [rid |-> rid, airport |-> airport, airline |-> airline, scale |-> scale,
   founded_cycle |-> founded_cycle, headquarter |-> headquarter, country |-> country]

\* Three bots and a player airline.  Bot 1 has no stored country code and a
\* name that holds the key 'Qantas' in another case; bot 2 has the stored code
\* US and already the base a reset would give it; bot 3 has a stored code no
\* airport carries.
WorldThreeBots ==
  [ airline |->
      { [id |-> 1, name |-> <<"q","a","n","t","a","s"," ","b","o","t">>, airline_type |-> BOT_TYPE],
        [id |-> 2, name |-> <<"S","k","y"," ","B","o","t">>, airline_type |-> BOT_TYPE],
        [id |-> 3, name |-> <<"A","i","r"," ","N","o","w","h","e","r","e">>, airline_type |-> BOT_TYPE],
        [id |-> 4, name |-> <<"P","l","a","y","e","r"," ","O","n","e">>, airline_type |-> 0] },
    airline_info |->
      { Info(1, 55000000, 80, 45, NULL), Info(2, -1500, 35, 90, "US"),
        Info(3, 7000, 50, 10, "FR"), Info(4, 999, 60, 20, "US") },
    link |-> { [id |-> 1, airline |-> 1], [id |-> 2, airline |-> 1],
               [id |-> 3, airline |-> 2], [id |-> 4, airline |-> 4] },
    link_assignment |-> { [link |-> 1, airplane |-> 1], [link |-> 2, airplane |-> 1],
                          [link |-> 3, airplane |-> 3], [link |-> 4, airplane |-> 4] },
    link_consumption |-> { [link |-> 1, cycle |-> 1], [link |-> 1, cycle |-> 2],
                           [link |-> 3, cycle |-> 2], [link |-> 4, cycle |-> 2] },
    airplane |-> { Plane(1, 1, 1, 1, 60, 9000000, 0, 3), Plane(2, 4, 1, 2, 85, 50000000, 1, 3),
                   Plane(3, 2, 2, 2, 100, 39000000, 0, 1), Plane(4, 3, 4, 1, 70, 30000000, 0, 2) },
    airplane_configuration |-> { [airplane |-> 1], [airplane |-> 3], [airplane |-> 4] },
    airline_base |-> { Base(1, 3, 1, 4, 1, 1, "US"), Base(2, 1, 1, 2, 2, 0, "US"),
                       Base(3, 1, 2, 1, 3, 1, "US"), Base(4, 2, 3, 2, 1, 1, "US"),
                       Base(5, 2, 4, 3, 1, 1, "US") },
    airline_appeal |-> { [airline |-> 1, airport |-> 3], [airline |-> 4, airport |-> 2] },
    airport |-> Airports,
    airplane_model |-> SmallCatalogue,
    cycle |-> {1, 2, 3} ]

\* One bot with the stored code US and the large catalogue.
WorldLargeCatalogue ==
  [ airline |->
      { [id |-> 1, name |-> <<"S","k","y"," ","B","o","t">>, airline_type |-> BOT_TYPE] },
    airline_info |-> { Info(1, 120000000, 75, 80, "US") },
    link |-> { [id |-> 1, airline |-> 1] },
    link_assignment |-> { [link |-> 1, airplane |-> 1] },
    link_consumption |-> { [link |-> 1, cycle |-> 4] },
    airplane |-> { Plane(1, 1, 1, 2, 40, 1000000, 0, 1), Plane(2, 2, 1, 3, 90, 2000000, 1, NULL_ID) },
    airplane_configuration |-> { [airplane |-> 1], [airplane |-> 2] },
    airline_base |-> { Base(1, 2, 1, 5, 1, 1, "US") },
    airline_appeal |-> { [airline |-> 1, airport |-> 2] },
    airport |-> Airports,
    airplane_model |-> LargeCatalogue,
    cycle |-> {4} ]

\* Two bots with no airline_info row, no model below the ceiling, and an
\* empty cycle table.  No key occurs in the name of bot 1; the name of bot 2
\* holds the key 'Qantas' and the bot has no other row.
WorldNoProfile ==
  [ airline |->
      { [id |-> 1, name |-> <<"B","o","t"," ","T","h","r","e","e">>, airline_type |-> BOT_TYPE],
        [id |-> 2, name |-> <<"Q","a","n","t","a","s"," ","T","w","o">>, airline_type |-> BOT_TYPE] },
    airline_info |-> {},
    link |-> { [id |-> 1, airline |-> 1] },
    link_assignment |-> { [link |-> 1, airplane |-> 1] },
    link_consumption |-> {},
    airplane |-> { Plane(1, 1, 1, 0, 55, 1000000, 0, 4) },
    airplane_configuration |-> { [airplane |-> 1] },
    airline_base |-> { Base(1, 4, 1, 2, 0, 1, "AU") },
    airline_appeal |-> { [airline |-> 1, airport |-> 4] },
    airport |-> Airports,
    airplane_model |-> DearCatalogue,
    cycle |-> {} ]

\* three models below the ceiling and one above it
MidCatalogue ==
  { [id |-> 1, price |-> 12000000], [id |-> 2, price |-> 25000000],
    [id |-> 3, price |-> 39000000], [id |-> 4, price |-> 45000000] }

\* Two bots with an airline_info row that stores no country code.  Bot 1 has
\* a name no key occurs in and no other row; bot 2 has a name holding the key
\* 'Air France', whose country FR no airport carries.
WorldNoCode ==
  [ airline |->
      { [id |-> 1, name |-> <<"C","l","o","u","d"," ","H","o","p","p","e","r">>, airline_type |-> BOT_TYPE],
        [id |-> 2, name |-> <<"A","i","r"," ","F","r","a","n","c","e"," ","B","o","t">>, airline_type |-> BOT_TYPE] },
    airline_info |-> { Info(1, 300000, 50, 0, NULL), Info(2, 8000000, 45, 33, "") },
    link |-> {},
    link_assignment |-> {},
    link_consumption |-> {},
    airplane |-> { Plane(1, 2, 2, 1, 75, 20000000, 0, 1) },
    airplane_configuration |-> { [airplane |-> 1] },
    airline_base |-> { Base(1, 1, 2, 1, 1, 1, "US") },
    airline_appeal |-> {},
    airport |-> Airports,
    airplane_model |-> MidCatalogue,
    cycle |-> {2} ]

\* No airline of type 2: one player airline with rows in every table.
WorldNoBots ==
  [ airline |->
      { [id |-> 1, name |-> <<"P","l","a","y","e","r"," ","O","n","e">>, airline_type |-> 0] },
    airline_info |-> { Info(1, 999, 60, 20, "US") },
    link |-> { [id |-> 1, airline |-> 1] },
    link_assignment |-> { [link |-> 1, airplane |-> 1] },
    link_consumption |-> { [link |-> 1, cycle |-> 1] },
    airplane |-> { Plane(1, 1, 1, 1, 70, 30000000, 0, 2) },
    airplane_configuration |-> { [airplane |-> 1] },
    airline_base |-> { Base(1, 2, 1, 3, 1, 1, "US") },
    airline_appeal |-> { [airline |-> 1, airport |-> 2] },
    airport |-> Airports,
    airplane_model |-> DearCatalogue,
    cycle |-> {1} ]

InitialStores ==
  { WorldThreeBots, WorldLargeCatalogue, WorldNoProfile, WorldNoCode, WorldNoBots }

\* the AUTO_INCREMENT counters of a store (and the next base row identity)
NextIds(t) ==
  [ airline  |-> IF t.airline = {} THEN 1 ELSE Max({a.id : a \in t.airline}) + 1,
    airplane |-> IF t.airplane = {} THEN 1 ELSE Max({a.id : a \in t.airplane}) + 1,
    base     |-> IF t.airline_base = {} THEN 1 ELSE Max({b.rid : b \in t.airline_base}) + 1 ]

(***************************************************************************)
(* State.                                                                  *)
(*   db       the committed store                                          *)
(*   tx       the store as the handler's connection sees it                *)
(*   autoinc  AUTO_INCREMENT counters (never rolled back)                  *)
(*   pc       the statement the running handler executes next, or "idle"   *)
(*   loc      the handler's local variables                                *)
(*   result   the response of the last finished handler                    *)
(*   pre      the committed store when the last handler started            *)
(*   prev     the response of the handler before the last one              *)
(*   ops      handlers started so far                                      *)
(*   cls      arguments and result of a determine_personality call         *)
(*   peer     a second reset_single_bot request served at the same time    *)
(***************************************************************************)
VARIABLES db, tx, autoinc, pc, loc, result, pre, prev, ops, cls, peer

vars == <<db, tx, autoinc, pc, loc, result, pre, prev, ops, cls, peer>>

NoLocals ==
  [ op |-> "none", bot_id |-> NULL_ID, bot_name |-> <<>>, country_code |-> NULL,
    current_cycle |-> 0, cheap_models |-> {}, selected |-> {}, hq_airport |-> NULL_ID,
    routes_deleted |-> 0, aircraft_deleted |-> 0, bases_deleted |-> 0,
    aircraft_added |-> 0, hqs_created |-> 0, bots |-> {}, bot_names |-> {},
    n_bots |-> 0, processed |-> {}, given_country |-> NULL, airport_iata |-> NULL ]

\* The response.  status and success are the HTTP status and the 'success'
\* field; the counts are the numbers of the message; bot_id, country_code,
\* hq_airport, current_cycle, processed (the bots whose statements all ran,
\* with the home found for each) and failed_at record what the handler did;
\* given_country and airport_iata are the arguments of create_bot; hq_created
\* is what the message says of a headquarters.
NoResult ==
  [ op |-> "none", status |-> 0, success |-> FALSE, bot_id |-> NULL_ID,
    routes_deleted |-> 0, aircraft_deleted |-> 0, bases_deleted |-> 0,
    aircraft_added |-> 0, hqs_created |-> 0, n_bots |-> 0, bots_reset |-> {},
    airline_id |-> NULL_ID, country_code |-> NULL, hq_airport |-> NULL_ID,
    current_cycle |-> 0, processed |-> {}, failed_at |-> "none",
    given_country |-> NULL, airport_iata |-> NULL, hq_created |-> FALSE ]

\* The HQ sentence of the success message: reset_single_bot always says
\* 'Created new HQ.', reset_bots 'Created {hqs_created} HQs.', create_bot
\* 'with HQ in {country_code}'.
SaysHqCreated(l) ==
  CASE l.op = "reset_one" -> TRUE
    [] l.op = "reset_all" -> l.hqs_created > 0
    [] l.op = "create" -> TRUE
    [] OTHER -> FALSE

Response(l, status, success, failed_at) ==
  [ op |-> l.op, status |-> status, success |-> success, bot_id |-> l.bot_id,
    routes_deleted |-> l.routes_deleted, aircraft_deleted |-> l.aircraft_deleted,
    bases_deleted |-> l.bases_deleted, aircraft_added |-> l.aircraft_added,
    hqs_created |-> l.hqs_created, n_bots |-> l.n_bots,
    bots_reset |-> IF success THEN l.bot_names ELSE {},
    airline_id |-> IF l.op = "create" /\ success THEN l.bot_id ELSE NULL_ID,
    country_code |-> l.country_code, hq_airport |-> l.hq_airport,
    current_cycle |-> l.current_cycle, processed |-> l.processed,
    failed_at |-> failed_at,
    given_country |-> l.given_country, airport_iata |-> l.airport_iata,
    hq_created |-> success /\ SaysHqCreated(l) ]

NoCall ==
  [ balance |-> [kind |-> "none", v |-> 0], reputation |-> [kind |-> "none", v |-> 0],
    service_quality |-> [kind |-> "none", v |-> 0], out |-> NULL ]

\* a store without rows
EmptyStore ==
  [ airline |-> {}, airline_info |-> {}, link |-> {}, link_assignment |-> {},
    link_consumption |-> {}, airplane |-> {}, airplane_configuration |-> {},
    airline_base |-> {}, airline_appeal |-> {}, airport |-> {}, airplane_model |-> {},
    cycle |-> {} ]

\* The second request: its position, its local variables, the rows its open
\* transaction has deleted (del) and inserted (ins), and its response status.
NoPeer ==
  [ pc |-> "idle", bot_id |-> NULL_ID, country_code |-> NULL, current_cycle |-> 0,
    cheap_models |-> {}, selected |-> {}, hq_airport |-> NULL_ID,
    del |-> EmptyStore, ins |-> EmptyStore, status |-> 0 ]

Init ==
  /\ db \in InitialStores
  /\ tx = db
  /\ autoinc = NextIds(db)
  /\ pc = "idle"
  /\ loc = NoLocals
  /\ result = NoResult
  /\ pre = db
  /\ prev = NoResult
  /\ ops = 0
  /\ cls = NoCall
  /\ peer = NoPeer

\* a handler returns without having written: nothing to commit or roll back
Return(l, status, success) ==
  /\ pc' = "idle"
  /\ result' = Response(l, status, success, "none")
  /\ loc' = NoLocals
  /\ UNCHANGED <<db, tx, autoinc>>

Begin ==
  /\ pc = "idle"
  /\ ops < MaxOps
  /\ ops' = ops + 1
  /\ pre' = db
  /\ prev' = result
  /\ UNCHANGED <<cls, peer>>

\* airline LEFT JOIN airline_info: the country_code of the airline's
\* airline_info row, NULL when it has none
JoinedCountry(t, id) ==
  IF \E i \in t.airline_info : i.airline = id
  THEN (CHOOSE i \in t.airline_info : i.airline = id).country_code
  ELSE NULL

\* `if not country_code: country_code = get_country_for_airline(bot_name)`
ResolveCountry(stored, name) ==
  IF Truthy(stored) THEN stored ELSE get_country_for_airline(name)

(***************************************************************************)
(* reset_single_bot(bot_id), up to its first DELETE.                       *)
(***************************************************************************)
StartResetOne(bot_id) ==
  /\ Begin
  /\ LET rows == {a \in tx.airline : a.id = bot_id}
         base == [NoLocals EXCEPT !.op = "reset_one", !.bot_id = bot_id]
     IN  IF rows = {} THEN Return(base, 404, FALSE)
         ELSE LET bot == CHOOSE a \in rows : TRUE
              IN  IF bot.airline_type # BOT_TYPE THEN Return(base, 400, FALSE)
                  ELSE /\ loc' = [base EXCEPT
                                   !.bot_name = bot.name,
                                   !.country_code =
                                      ResolveCountry(JoinedCountry(tx, bot_id), bot.name),
                                   !.current_cycle = CurrentCycle(tx),
                                   !.cheap_models = CheapModels(tx)]
                       /\ pc' = "delete_link_assignment"
                       /\ UNCHANGED <<db, tx, autoinc, result>>

(***************************************************************************)
(* reset_bots(), up to its loop.                                           *)
(***************************************************************************)
BotRows(t) ==
  { [id |-> a.id, name |-> a.name, country_code |-> JoinedCountry(t, a.id)]
      : a \in {x \in t.airline : x.airline_type = BOT_TYPE} }

StartResetAll ==
  /\ Begin
  /\ LET bots == BotRows(tx)
         base == [NoLocals EXCEPT !.op = "reset_all"]
     IN  IF bots = {} THEN Return(base, 200, TRUE)
         ELSE /\ loc' = [base EXCEPT
                          !.bots = bots,
                          !.bot_names = {b.name : b \in bots},
                          !.n_bots = Cardinality(bots),
                          !.current_cycle = CurrentCycle(tx),
                          !.cheap_models = CheapModels(tx)]
              /\ pc' = "next_bot"
              /\ UNCHANGED <<db, tx, autoinc, result>>

\* `for bot in bots`: the SELECT has no ORDER BY, so any bot left may be next
NextBot ==
  /\ pc = "next_bot"
  /\ \E bot \in loc.bots :
       loc' = [loc EXCEPT !.bots = @ \ {bot},
                          !.bot_id = bot.id,
                          !.bot_name = bot.name,
                          !.country_code = ResolveCountry(bot.country_code, bot.name),
                          !.hq_airport = NULL_ID,
                          !.selected = {}]
  /\ db' = CommittedAfterBot(db, tx)
  /\ pc' = "delete_link_assignment"
  /\ UNCHANGED <<tx, autoinc, result, pre, prev, ops, cls, peer>>

(***************************************************************************)
(* The statements of one bot's teardown and rebuild, the same in           *)
(* reset_single_bot and in the loop body of reset_bots.                    *)
(***************************************************************************)
Statement(at, next, newtx, newloc) ==
  /\ pc = at
  /\ pc' = next
  /\ tx' = newtx
  /\ db' = OthersSee(db, newtx)
  /\ loc' = newloc
  /\ UNCHANGED <<autoinc, result, pre, prev, ops, cls, peer>>

\* DELETE FROM link_assignment WHERE link IN (SELECT id FROM link WHERE airline = %s)
ExecDeleteLinkFirst ==
  Statement("delete_link_assignment", "delete_link_consumption",
            DeleteLink(tx, loc.bot_id), loc)

ExecDeleteLinkAssignment ==
  Statement("delete_link_assignment", "delete_link_consumption",
            DeleteLinkAssignment(tx, loc.bot_id), loc)

ExecDeleteLinkConsumption ==
  Statement("delete_link_consumption", "delete_link",
            DeleteLinkConsumption(tx, loc.bot_id), loc)

\* a batch that keeps only the last bot's count: routes_deleted = cursor.rowcount
ExecDeleteLinkLastCount ==
  Statement("delete_link", "delete_airplane_configuration",
            DeleteLink(tx, loc.bot_id),
            [loc EXCEPT !.routes_deleted = Cardinality(LinkIds(tx, loc.bot_id))])

\* routes_deleted (+)= cursor.rowcount
ExecDeleteLink ==
  Statement("delete_link", "delete_airplane_configuration",
            DeleteLink(tx, loc.bot_id),
            [loc EXCEPT !.routes_deleted = @ + Cardinality(LinkIds(tx, loc.bot_id))])

ExecDeleteAirplaneConfiguration ==
  Statement("delete_airplane_configuration", "delete_airplane",
            DeleteAirplaneConfiguration(tx, loc.bot_id), loc)

\* aircraft_deleted (+)= cursor.rowcount
ExecDeleteAirplane ==
  Statement("delete_airplane", "delete_airline_base",
            DeleteAirplane(tx, loc.bot_id),
            [loc EXCEPT !.aircraft_deleted = @ + Cardinality(AirplaneIds(tx, loc.bot_id))])

\* bases_deleted (+)= cursor.rowcount
ExecDeleteAirlineBase ==
  Statement("delete_airline_base", "delete_airline_appeal",
            DeleteAirlineBase(tx, loc.bot_id),
            [loc EXCEPT !.bases_deleted = @ +
               Cardinality({b \in tx.airline_base : b.airline = loc.bot_id})])

ExecDeleteAirlineAppeal ==
  Statement("delete_airline_appeal", "update_airline_info",
            DeleteAirlineAppeal(tx, loc.bot_id), loc)

ExecUpdateAirlineInfo ==
  Statement("update_airline_info", "insert_airline_base",
            UpdateAirlineInfo(tx, loc.bot_id, loc.country_code), loc)

\* hq_airport = None; if country_code: the first row of the airport query, if any
HqAirportsAnyAirport(t, country_code) ==
  IF Truthy(country_code) /\ BestAirports(t, country_code) # {}
  THEN BestAirports(t, country_code)
  ELSE {a.id : a \in t.airport}

HqAirports(t, country_code) ==
  IF Truthy(country_code) /\ BestAirports(t, country_code) # {}
  THEN BestAirports(t, country_code)
  ELSE {NULL_ID}

\* the airport query and `if hq_airport and country_code: INSERT INTO airline_base`
\* (hqs_created is counted by reset_bots only)
ExecInsertAirlineBase ==
  /\ pc = "insert_airline_base"
  /\ \E hq \in HqAirports(tx, loc.country_code) :
       /\ loc' = [loc EXCEPT !.hq_airport = hq,
                             !.hqs_created =
                                IF hq # NULL_ID /\ loc.op = "reset_all" THEN @ + 1 ELSE @]
       /\ IF hq # NULL_ID /\ Truthy(loc.country_code)
          THEN /\ tx' = [tx EXCEPT !.airline_base = @ \cup
                           {NewBase(autoinc.base, hq, loc.bot_id, loc.current_cycle,
                                    loc.country_code)}]
               /\ autoinc' = [autoinc EXCEPT !.base = @ + 1]
          ELSE UNCHANGED <<tx, autoinc>>
  /\ db' = OthersSee(db, tx')
  /\ pc' = "sample"
  /\ UNCHANGED <<result, pre, prev, ops, cls, peer>>

\* where the handler goes once the fleet loop is over
AfterFleet(l) ==
  IF l.op = "reset_all" /\ l.bots # {} THEN "next_bot" ELSE "commit"

\* the bots of the batch whose statements have all run, with the home of each
Processed(l) ==
  IF l.op = "reset_all"
  THEN l.processed \cup {[id |-> l.bot_id, hq_airport |-> l.hq_airport,
                          country_code |-> l.country_code]}
  ELSE l.processed

\* `if cheap_models: selected_models = random.sample(cheap_models, min(5, len(cheap_models)))`
\* (create_bot reads cheap_models here, the resets read it before the deletes)
SampleModels ==
  /\ pc = "sample"
  /\ LET cheap == IF loc.op = "create" THEN CheapModels(tx) ELSE loc.cheap_models
     IN  \E S \in Samples(cheap) :
           LET l == [loc EXCEPT !.cheap_models = cheap, !.selected = S]
           IN  IF S = {}
               THEN /\ loc' = [l EXCEPT !.processed = Processed(l)]
                    /\ pc' = AfterFleet(l)
               ELSE /\ loc' = l
                    /\ pc' = "insert_airplane"
  /\ UNCHANGED <<db, tx, autoinc, result, pre, prev, ops, cls, peer>>

\* one turn of `for model in selected_models: INSERT INTO airplane ...; aircraft_added += 1`
ExecInsertAirplane ==
  /\ pc = "insert_airplane"
  /\ LET model == CHOOSE m \in loc.selected : \A o \in loc.selected : m.id <= o.id
         l == [loc EXCEPT !.selected = @ \ {model}, !.aircraft_added = @ + 1]
     IN  /\ tx' = [tx EXCEPT !.airplane = @ \cup
                     {NewAirplane(autoinc.airplane, model, loc.bot_id,
                                  loc.current_cycle, loc.hq_airport)}]
         /\ autoinc' = [autoinc EXCEPT !.airplane = @ + 1]
         /\ IF l.selected = {}
            THEN /\ loc' = [l EXCEPT !.processed = Processed(l)]
                 /\ pc' = AfterFleet(l)
            ELSE /\ loc' = l
                 /\ pc' = "insert_airplane"
  /\ db' = OthersSee(db, tx')
  /\ UNCHANGED <<result, pre, prev, ops, cls, peer>>

(***************************************************************************)
(* create_bot.                                                             *)
(***************************************************************************)
\* data.get('name', 'New Bot Airline')
CreateNames ==
  { <<"N","e","w"," ","B","o","t"," ","A","i","r","l","i","n","e">>,
    <<"A","i","r"," ","F","r","a","n","c","e"," ","2">> }

\* data.get('country_code', 'US')
CreateCountries == { "US", "AU", "FR" }

\* data.get('airport_iata'): absent, an airport of the table, an unknown code
CreateIatas == { NULL, "LAX", "XXX" }

\* up to the INSERT INTO airline: the cycle and the HQ airport are looked up,
\* and the handler returns 404 when no airport is found
StartCreate(name, country_code, airport_iata) ==
  /\ Begin
  /\ LET base == [NoLocals EXCEPT !.op = "create", !.bot_name = name,
                                  !.country_code = country_code,
                                  !.current_cycle = CurrentCycle(tx),
                                  !.given_country = country_code,
                                  !.airport_iata = airport_iata]
         found == IF Truthy(airport_iata)
                  THEN {[id |-> a.id, country_code |-> a.country_code]
                          : a \in AirportsByIata(tx, airport_iata)}
                  ELSE {[id |-> a, country_code |-> country_code]
                          : a \in BestAirports(tx, country_code)}
     IN  IF found = {} THEN Return(base, 404, FALSE)
         ELSE \E f \in found :
                /\ loc' = [base EXCEPT !.hq_airport = f.id,
                                       !.country_code = f.country_code]
                /\ pc' = "insert_airline"
                /\ UNCHANGED <<db, tx, autoinc, result>>

\* INSERT INTO airline; airline_id = cursor.lastrowid
ExecInsertAirline ==
  /\ pc = "insert_airline"
  /\ tx' = [tx EXCEPT !.airline = @ \cup {NewAirline(autoinc.airline, loc.bot_name)}]
  /\ autoinc' = [autoinc EXCEPT !.airline = @ + 1]
  /\ loc' = [loc EXCEPT !.bot_id = autoinc.airline]
  /\ pc' = "insert_airline_info"
  /\ db' = OthersSee(db, tx')
  /\ UNCHANGED <<result, pre, prev, ops, cls, peer>>

ExecInsertAirlineInfo ==
  Statement("insert_airline_info", "insert_hq_base",
            [tx EXCEPT !.airline_info = @ \cup {NewAirlineInfo(loc.bot_id, loc.country_code)}],
            loc)

\* create_bot inserts the HQ base unconditionally
ExecInsertHqBase ==
  /\ pc = "insert_hq_base"
  /\ tx' = [tx EXCEPT !.airline_base = @ \cup
              {NewBase(autoinc.base, loc.hq_airport, loc.bot_id, loc.current_cycle,
                       loc.country_code)}]
  /\ autoinc' = [autoinc EXCEPT !.base = @ + 1]
  /\ pc' = "sample"
  /\ db' = OthersSee(db, tx')
  /\ UNCHANGED <<loc, result, pre, prev, ops, cls, peer>>

(***************************************************************************)
(* The end of a transaction.                                               *)
(***************************************************************************)
\* conn.commit() and the success response
Commit ==
  /\ pc = "commit"
  /\ db' = tx
  /\ pc' = "idle"
  /\ result' = Response(loc, 200, TRUE, "none")
  /\ loc' = NoLocals
  /\ UNCHANGED <<tx, autoinc, pre, prev, ops, cls, peer>>

\* Any statement of an open transaction, the commit included, may raise:
\* `except Exception`: conn.rollback(), response 500; `finally`: conn.close()
StorageError ==
  /\ pc \notin {"idle", "next_bot", "blocked"}
  /\ db' = Rollback(db, tx)
  /\ tx' = db'
  /\ pc' = "idle"
  /\ result' = Response(loc, 500, FALSE, pc)
  /\ loc' = NoLocals
  /\ UNCHANGED <<autoinc, pre, prev, ops, cls, peer>>

Next ==
  \/ \E bot_id \in {a.id : a \in db.airline} \cup {autoinc.airline} : StartResetOne(bot_id)
  \/ StartResetAll
  \/ NextBot
  \/ ExecDeleteLinkAssignment
  \/ ExecDeleteLinkConsumption
  \/ ExecDeleteLink
  \/ ExecDeleteAirplaneConfiguration
  \/ ExecDeleteAirplane
  \/ ExecDeleteAirlineBase
  \/ ExecDeleteAirlineAppeal
  \/ ExecUpdateAirlineInfo
  \/ ExecInsertAirlineBase
  \/ SampleModels
  \/ ExecInsertAirplane
  \/ \E name \in CreateNames, country_code \in CreateCountries, airport_iata \in CreateIatas :
       StartCreate(name, country_code, airport_iata)
  \/ ExecInsertAirline
  \/ ExecInsertAirlineInfo
  \/ ExecInsertHqBase
  \/ Commit
  \/ StorageError

Spec == Init /\ [][Next]_vars

(***************************************************************************)
(* determine_personality as a state machine of its own: the arguments are  *)
(* drawn at the start, one step applies the function.                      *)
(***************************************************************************)
Num(v) == [kind |-> "num", v |-> v]

NonNumbers ==
  { [kind |-> "none", v |-> 0], [kind |-> "emptystr", v |-> 0], [kind |-> "bad", v |-> 0] }

BalanceArgs ==
  { Num(v) : v \in { -5000000, 0, 5000000, 2 * CASH_UNIT - 1, 2 * CASH_UNIT,
                     10 * CASH_UNIT, 10 * CASH_UNIT + 1, 150000000 } }
    \cup NonNumbers \cup { [kind |-> "numstr", v |-> 150000000] }

ReputationArgs ==
  { Num(v) : v \in { 0, 10, 29, 30, 50, 70, 71, 80 } }
    \cup NonNumbers \cup { [kind |-> "numstr", v |-> 80] }

ServiceQualityArgs ==
  { Num(v) : v \in { 0, 30, 39, 40, 50, 70, 71, 80 } }
    \cup NonNumbers \cup { [kind |-> "numstr", v |-> 80] }

InitClassify ==
  /\ db = WorldNoProfile
  /\ tx = db
  /\ autoinc = NextIds(db)
  /\ pc = "idle"
  /\ loc = NoLocals
  /\ result = NoResult
  /\ pre = db
  /\ prev = NoResult
  /\ ops = 0
  /\ peer = NoPeer
  /\ \E b \in BalanceArgs, r \in ReputationArgs, s \in ServiceQualityArgs :
       cls = [balance |-> b, reputation |-> r, service_quality |-> s, out |-> NULL]

\* personality = determine_personality(bot['balance'], bot['reputation'], bot['service_quality'])
Classify ==
  /\ cls.out = NULL
  /\ cls' = [cls EXCEPT !.out =
               determine_personality(cls.balance, cls.reputation, cls.service_quality)]
  /\ UNCHANGED <<db, tx, autoinc, pc, loc, result, pre, prev, ops, peer>>

NextClassify == Classify

SpecClassify == InitClassify /\ [][NextClassify]_vars

(***************************************************************************)
(* Vocabulary of the properties.                                           *)
(***************************************************************************)
Finished(op) == pc = "idle" /\ result.op = op

Succeeded(op) == Finished(op) /\ result.success /\ result.status = 200

Failed(op) == Finished(op) /\ result.status = 500

\* the rows of store t that belong to airline e
Links(t, e) == {l \in t.link : l.airline = e}

Planes(t, e) == {a \in t.airplane : a.owner = e}

Bases(t, e) == {b \in t.airline_base : b.airline = e}

Infos(t, e) == {i \in t.airline_info : i.airline = e}

Appeals(t, e) == {r \in t.airline_appeal : r.airline = e}

EntityRows(t, e) ==
  [ link |-> Links(t, e),
    link_assignment |-> {r \in t.link_assignment : r.link \in LinkIds(t, e)},
    link_consumption |-> {r \in t.link_consumption : r.link \in LinkIds(t, e)},
    airplane |-> Planes(t, e),
    airplane_configuration |->
      {r \in t.airplane_configuration : r.airplane \in AirplaneIds(t, e)},
    airline_base |-> Bases(t, e),
    airline_appeal |-> Appeals(t, e),
    airline_info |-> Infos(t, e) ]

\* the steps of a reset from its first DELETE on
ResetSteps ==
  { "delete_link_assignment", "delete_link_consumption", "delete_link",
    "delete_airplane_configuration", "delete_airplane", "delete_airline_base",
    "delete_airline_appeal", "update_airline_info", "insert_airline_base",
    "sample", "insert_airplane", "commit" }

\* the country a reset of airline e of store t works with, and whether a home
\* airport exists for it
NameOf(t, e) == (CHOOSE a \in t.airline : a.id = e).name

HomeCountry(t, e) ==
  LET stored == IF Infos(t, e) = {} THEN NULL
                ELSE (CHOOSE i \in Infos(t, e) : TRUE).country_code
  IN  IF stored # NULL /\ stored # "" THEN stored ELSE get_country_for_airline(NameOf(t, e))

HomeResolvable(t, e) ==
  \E a \in t.airport : a.country_code = HomeCountry(t, e)

\* the current cycle of store t: the largest cycle recorded, 0 when none is
CycleOf(t) == IF t.cycle = {} THEN 0 ELSE CHOOSE c \in t.cycle : \A d \in t.cycle : d <= c

\* the models a fleet may be drawn from: priced strictly below 40,000,000
Pool(t) == {m \in t.airplane_model : m.price < 40000000}

FleetSize(t) == IF Cardinality(Pool(t)) <= 5 THEN Cardinality(Pool(t)) ELSE 5

(***************************************************************************)
(* C1.  If reset_one(E) fails at any step from its first delete to its     *)
(* commit, it reports an error and the committed rows of E are exactly     *)
(* the rows before the call.                                               *)
(***************************************************************************)
C1_FailedResetLeavesRows ==
  (Failed("reset_one") /\ result.failed_at \in ResetSteps) =>
     /\ ~result.success
     /\ EntityRows(db, result.bot_id) = EntityRows(pre, result.bot_id)
     /\ tx = db

\* a reset of a bot with routes, aircraft and bases that failed at its commit
C1_Witness ==
  /\ Failed("reset_one")
  /\ result.failed_at = "commit"
  /\ Links(pre, result.bot_id) # {}
  /\ Planes(pre, result.bot_id) # {}
  /\ Cardinality(Bases(pre, result.bot_id)) > 1

(***************************************************************************)
(* C2.  After every successful reset_one(E) on a bot, E's FinancialProfile *)
(* has balance 200000, reputation 0 and service quality 50.                *)
(* (The statement of the claim; it fails for a bot without airline_info    *)
(* row, which the UPDATE does not create.)                                 *)
(***************************************************************************)
C2_ProfileAfterReset ==
  Succeeded("reset_one") =>
     \E i \in db.airline_info :
        /\ i.airline = result.bot_id
        /\ i.balance = 200000
        /\ i.reputation = 0
        /\ i.service_quality = 50

(***************************************************************************)
(* C3.  After every successful reset_one(E) none of E's former bases       *)
(* remains; if a home airport exists for E's country E has exactly one     *)
(* base, at the airport found, headquarters, scale 1, founded in the       *)
(* current cycle; otherwise E has no base.                                 *)
(***************************************************************************)
C3_BasesAfterReset ==
  Succeeded("reset_one") =>
     LET e == result.bot_id
         now == Bases(db, e)
     IN  /\ \A b \in now : \A o \in Bases(pre, e) : b.rid # o.rid
         /\ HomeResolvable(pre, e) <=> result.hq_airport # NULL_ID
         /\ IF HomeResolvable(pre, e)
            THEN /\ Cardinality(now) = 1
                 /\ \A b \in now :
                      /\ b.airport = result.hq_airport
                      /\ \E a \in db.airport :
                           a.id = b.airport /\ a.country_code = HomeCountry(pre, e)
                      /\ b.headquarter = 1
                      /\ b.scale = 1
                      /\ b.founded_cycle = CycleOf(pre)
            ELSE now = {}

\* a reset of a bot that had a headquarters and a second base
C3_Witness ==
  /\ Succeeded("reset_one")
  /\ result.hq_airport # NULL_ID
  /\ \E b \in Bases(pre, result.bot_id) : b.headquarter = 0
  /\ \E b \in Bases(pre, result.bot_id) : b.headquarter = 1

(***************************************************************************)
(* C4.  After every successful reset_one or create_bot every airplane of   *)
(* the airline was inserted by the operation, there are at most 5, and     *)
(* each has condition 100, depreciation rate 0, is unsold, is valued at    *)
(* its model's price, was constructed and purchased in the current cycle   *)
(* and has the home found (none when none was found).                      *)
(***************************************************************************)
C4_FleetAfterResetOrCreate ==
  (Succeeded("reset_one") \/ Succeeded("create")) =>
     LET e == result.bot_id
         now == Planes(db, e)
     IN  /\ result.op = "create" => result.airline_id = e
         /\ Cardinality(now) <= 5
         /\ \A a \in now :
              /\ \A o \in pre.airplane : o.id # a.id
              /\ a.airplane_condition = 100
              /\ a.depreciation_rate = 0
              /\ a.is_sold = 0
              /\ \E m \in db.airplane_model : m.id = a.model /\ m.price = a.value
              /\ a.constructed_cycle = CycleOf(pre)
              /\ a.purchased_cycle = CycleOf(pre)
              /\ a.home = result.hq_airport
              /\ (result.op = "reset_one" /\ ~HomeResolvable(pre, e)) => a.home = NULL_ID

\* a reset that replaced a fleet holding a sold airplane by five new airplanes
C4_Witness ==
  /\ Succeeded("reset_one")
  /\ Cardinality(Planes(db, result.bot_id)) = 5
  /\ \E o \in Planes(pre, result.bot_id) : o.is_sold = 1

(***************************************************************************)
(* C5.  As claimed: when the reset of one bot fails inside reset_all, the  *)
(* bots already processed stay reset and committed.                        *)
(* (The statement of the claim; the code commits once, after the loop.)    *)
(***************************************************************************)
InResetState(t, e) ==
  /\ Links(t, e) = {}
  /\ \A a \in Planes(t, e) : a.airplane_condition = 100 /\ a.is_sold = 0
  /\ \A b \in Bases(t, e) : b.scale = 1 /\ b.headquarter = 1
  /\ \A i \in Infos(t, e) :
       i.balance = 200000 /\ i.reputation = 0 /\ i.service_quality = 50

Terminal(t, e) ==
  [ profile |-> {[balance |-> i.balance, reputation |-> i.reputation,
                  service_quality |-> i.service_quality,
                  country_code |-> i.country_code] : i \in Infos(t, e)},
    hq |-> {b.airport : b \in {x \in Bases(t, e) : x.headquarter = 1}},
    bases |-> Cardinality(Bases(t, e)),
    routes |-> Cardinality(Links(t, e)),
    airplanes |-> Cardinality(Planes(t, e)) ]

ResetTwice ==
  /\ Succeeded("reset_one")
  /\ prev.op = "reset_one"
  /\ prev.success
  /\ prev.bot_id = result.bot_id

C6_SameTerminalState ==
  ResetTwice =>
     /\ Terminal(db, result.bot_id) = Terminal(pre, result.bot_id)
     /\ Links(db, result.bot_id) = {}
     /\ Cardinality(Planes(db, result.bot_id)) <= 5

(***************************************************************************)
(* C7.  After every successful reset_one(E), and after a successful        *)
(* reset_all for every bot, no link_assignment or link_consumption row     *)
(* refers to a link the reset deleted, no airplane_configuration row       *)
(* refers to an airplane it deleted, and the airline has no link and no    *)
(* airline_appeal row.                                                     *)
(***************************************************************************)
\* the airlines the finished operation worked on
Targets ==
  IF result.op = "reset_all" THEN {b.id : b \in BotRows(pre)} ELSE {result.bot_id}

C7_NoDanglingReference ==
  (Succeeded("reset_one") \/ Succeeded("reset_all")) =>
     \A e \in Targets :
        LET deadLinks == LinkIds(pre, e) \ {l.id : l \in db.link}
            deadPlanes == AirplaneIds(pre, e) \ {a.id : a \in db.airplane}
        IN  /\ deadLinks = LinkIds(pre, e)
            /\ deadPlanes = AirplaneIds(pre, e)
            /\ \A r \in db.link_assignment : r.link \notin deadLinks
            /\ \A r \in db.link_consumption : r.link \notin deadLinks
            /\ \A r \in db.airplane_configuration : r.airplane \notin deadPlanes
            /\ Links(db, e) = {}
            /\ Appeals(db, e) = {}

\* a reset of a bot whose links had assignments and consumption rows and
\* whose airplanes had a configuration
C7_Witness ==
  /\ Succeeded("reset_one")
  /\ \E r \in pre.link_assignment : r.link \in LinkIds(pre, result.bot_id)
  /\ \E r \in pre.link_consumption : r.link \in LinkIds(pre, result.bot_id)
  /\ \E r \in pre.airplane_configuration : r.airplane \in AirplaneIds(pre, result.bot_id)
  /\ Appeals(pre, result.bot_id) # {}

(***************************************************************************)
(* C8.  Fleet provisioning for one airline inserts exactly                 *)
(* min(5, pool size) airplanes, the pool being the models priced strictly  *)
(* below 40,000,000; no two of them share a model; with an empty pool it   *)
(* inserts none and the operation still succeeds.                          *)
(***************************************************************************)
C8_FleetIsSampleOfPool ==
  (Succeeded("reset_one") \/ Succeeded("reset_all") \/ Succeeded("create")) =>
     /\ \A e \in Targets :
          LET new == {a \in Planes(db, e) : \A o \in pre.airplane : o.id # a.id}
          IN  /\ Cardinality(new) = FleetSize(pre)
              /\ \A a \in new : \A b \in new : a.model = b.model => a = b
              /\ \A a \in new : \E m \in Pool(pre) : m.id = a.model
     /\ result.aircraft_added = FleetSize(pre) * Cardinality(Targets)
     /\ db.airplane_model = pre.airplane_model

\* a create_bot with more than five models in the pool
C8_Witness ==
  /\ Succeeded("create")
  /\ Cardinality(Pool(pre)) > 5
  /\ Cardinality(Planes(db, result.bot_id)) = 5
  /\ \E m \in pre.airplane_model : m.price = 40000000

(***************************************************************************)
(* C9.  For numeric arguments determine_personality returns the first      *)
(* match of: service_quality > 70 PREMIUM; balance/10,000,000 < 2 and      *)
(* reputation < 30 BUDGET; reputation > 70 CONSERVATIVE;                   *)
(* balance/10,000,000 > 10 AGGRESSIVE; service_quality < 40 REGIONAL;      *)
(* otherwise BALANCED; with the six examples of the specification.         *)
(***************************************************************************)
FirstMatch(b, r, s) ==
  CASE s > 70 -> "PREMIUM"
    [] ~(s > 70) /\ (b < 20000000 /\ r < 30) -> "BUDGET"
    [] ~(s > 70) /\ ~(b < 20000000 /\ r < 30) /\ r > 70 -> "CONSERVATIVE"
    [] ~(s > 70) /\ ~(b < 20000000 /\ r < 30) /\ ~(r > 70) /\ b > 100000000 -> "AGGRESSIVE"
    [] ~(s > 70) /\ ~(b < 20000000 /\ r < 30) /\ ~(r > 70) /\ ~(b > 100000000) /\ s < 40
         -> "REGIONAL"
    [] OTHER -> "BALANCED"

Example(b, r, s, out) ==
  (cls.balance = Num(b) /\ cls.reputation = Num(r) /\ cls.service_quality = Num(s))
     => cls.out = out

C9_ClassifyOrder ==
  cls.out # NULL =>
     /\ (cls.balance.kind = "num" /\ cls.reputation.kind = "num"
           /\ cls.service_quality.kind = "num")
          => cls.out = FirstMatch(cls.balance.v, cls.reputation.v, cls.service_quality.v)
     /\ Example(0, 0, 80, "PREMIUM")
     /\ Example(5000000, 10, 50, "BUDGET")
     /\ Example(0, 80, 50, "CONSERVATIVE")
     /\ Example(150000000, 50, 50, "AGGRESSIVE")
     /\ Example(0, 50, 30, "REGIONAL")
     /\ Example(0, 50, 50, "BALANCED")

\* the call (150000000, 80, 50), which rules 3 and 4 both match
C9_Witness ==
  /\ cls.out = "CONSERVATIVE"
  /\ cls.balance = Num(150000000)
  /\ cls.reputation = Num(80)
  /\ cls.service_quality = Num(50)

(***************************************************************************)
(* C10.  determine_personality never raises, and with any of its           *)
(* arguments non-numeric or missing it returns what it returns with        *)
(* exactly those arguments replaced by zero.                               *)
(* (The statement of the claim; one argument float() raises on sends all   *)
(* three to zero.)                                                         *)
(***************************************************************************)
Zeroed(x) == IF x.kind \in {"none", "emptystr", "bad"} THEN Num(0) ELSE x

C10_NonNumericIsZero ==
  cls.out # NULL =>
     /\ cls.out \in {"PREMIUM", "BUDGET", "CONSERVATIVE", "AGGRESSIVE", "REGIONAL", "BALANCED"}
     /\ cls.out = FirstMatch(Zeroed(cls.balance).v, Zeroed(cls.reputation).v,
                             Zeroed(cls.service_quality).v)

(***************************************************************************)
(* C11.  For a bot whose airline_info row stores no country code: when its *)
(* name holds a key of the name table (as a substring, whatever the case)  *)
(* a successful reset_one stores the mapped code in the profile and, where *)
(* an airport carries that code, leaves one HQ base at a best airport of   *)
(* it; when its name holds no key the reset still succeeds, creates no     *)
(* base and reports that no HQ was created.                                *)
(* (The statement of the claim; the success message of reset_single_bot    *)
(* says 'Created new HQ.' whether or not a base was inserted.)             *)
(***************************************************************************)
\* the airports of store t with country code c that no other airport of c
\* beats on (airport_size, population)
TopLocations(t, c) ==
  { a \in t.airport :
      /\ a.country_code = c
      /\ \A o \in t.airport :
           o.country_code = c =>
              \/ o.airport_size < a.airport_size
              \/ (o.airport_size = a.airport_size /\ o.population <= a.population) }

\* airline e of store t has an airline_info row and it stores no country code
NoStoredCode(t, e) ==
  /\ Infos(t, e) # {}
  /\ \A i \in Infos(t, e) : i.country_code \in {NULL, ""}

C11_NameMappingOnReset ==
  (Succeeded("reset_one") /\ NoStoredCode(pre, result.bot_id)) =>
     LET e == result.bot_id
         mapped == get_country_for_airline(NameOf(pre, e))
     IN  IF mapped # NULL
         THEN /\ \A i \in Infos(db, e) : i.country_code = mapped
              /\ TopLocations(pre, mapped) # {} =>
                   /\ Cardinality(Bases(db, e)) = 1
                   /\ \A b \in Bases(db, e) :
                        /\ b.headquarter = 1
                        /\ \E a \in TopLocations(pre, mapped) : a.id = b.airport
         ELSE /\ Bases(db, e) = {}
              /\ result.hq_created = FALSE

(***************************************************************************)
(* C12.  Another connection (the simulation) sees of a lifecycle operation *)
(* only whole states: while reset_one, reset_all or create_bot runs the    *)
(* committed store is the store before the call, whatever part of the      *)
(* teardown and rebuild the handler's own connection has applied; when it  *)
(* has ended the committed store is either still the store before the      *)
(* call (failure) or holds everything the handler wrote (success).         *)
(***************************************************************************)
LifecycleOps == {"reset_one", "reset_all", "create"}

C13_RejectedResetChangesNothing ==
  Finished("reset_one") =>
     LET e == result.bot_id
         rows == {a \in pre.airline : a.id = e}
     IN  /\ (rows = {} \/ Infos(pre, e) = {}) =>
              /\ result.status = 404
              /\ ~result.success
              /\ db = pre
              /\ tx = db
         /\ (rows # {} /\ Infos(pre, e) # {} /\ \A a \in rows : a.airline_type # BOT_TYPE) =>
              /\ result.status = 400
              /\ ~result.success
              /\ db = pre
              /\ tx = db

(***************************************************************************)
(* C14.  create_bot is all or nothing: while it runs nothing of it is      *)
(* committed; when it fails, at the airport lookup (404) or at any         *)
(* statement from the INSERT INTO airline to the commit (500), the         *)
(* committed store is the store before the call and the response is an     *)
(* error; when it succeeds the committed store holds, beyond the rows of   *)
(* before, exactly one airline, its one airline_info row, its one base     *)
(* and its airplanes.                                                      *)
(***************************************************************************)
CreateSteps ==
  { "insert_airline", "insert_airline_info", "insert_hq_base", "sample",
    "insert_airplane", "commit" }

C14_CreateIsAtomic ==
  /\ (pc # "idle" /\ loc.op = "create") => db = pre
  /\ (Finished("create") /\ ~result.success) =>
       /\ result.status \in {404, 500}
       /\ result.status = 500 => result.failed_at \in CreateSteps
       /\ result.airline_id = NULL_ID
       /\ db = pre
       /\ tx = db
  /\ Succeeded("create") =>
       LET e == result.airline_id
       IN  /\ db.airline \ pre.airline = {a \in db.airline : a.id = e}
           /\ Cardinality(db.airline \ pre.airline) = 1
           /\ db.airline_info \ pre.airline_info = Infos(db, e)
           /\ Cardinality(Infos(db, e)) = 1
           /\ db.airline_base \ pre.airline_base = Bases(db, e)
           /\ Cardinality(Bases(db, e)) = 1
           /\ db.airplane \ pre.airplane = Planes(db, e)
           /\ Cardinality(Planes(db, e)) = result.aircraft_added
           /\ pre.airline \subseteq db.airline
           /\ pre.airline_info \subseteq db.airline_info
           /\ pre.airline_base \subseteq db.airline_base
           /\ pre.airplane \subseteq db.airplane

\* a create_bot that failed at the INSERT of its second airplane, the
\* airline, its profile, its base and one airplane already inserted
C14_Witness ==
  /\ Failed("create")
  /\ result.failed_at = "insert_airplane"
  /\ result.aircraft_added = 1
  /\ result.bot_id # NULL_ID
  /\ result.hq_airport # NULL_ID
  /\ db = pre

(***************************************************************************)
(* C15.  As claimed: in reset_one, reset_all and create_bot a home that    *)
(* cannot be resolved is not fatal: unless a statement fails the operation *)
(* succeeds, the airline has no base, and its new airplanes have no home.  *)
(* (The statement of the claim; create_bot answers 404 instead.)           *)
(***************************************************************************)
\* the finished create_bot found no airport: its hint names none, or, with
\* no hint, no airport carries the country code given
CreateUnresolved ==
  IF result.airport_iata # NULL /\ result.airport_iata # ""
  THEN \A a \in pre.airport : a.iata # result.airport_iata
  ELSE \A a \in pre.airport : a.country_code # result.given_country

\* after the operation airline e has no base and only airplanes without home
Homeless(e) ==
  /\ Bases(db, e) = {}
  /\ \A a \in Planes(db, e) : a.home = NULL_ID
  /\ Cardinality(Planes(db, e)) = FleetSize(pre)

IsBot(t, e) == \E a \in t.airline : a.id = e /\ a.airline_type = BOT_TYPE

ResetsTolerateNoHome ==
  /\ (Finished("reset_one") /\ IsBot(pre, result.bot_id)
        /\ ~HomeResolvable(pre, result.bot_id) /\ result.status # 500) =>
       /\ result.success
       /\ result.status = 200
       /\ result.hq_airport = NULL_ID
       /\ Homeless(result.bot_id)
  /\ (Finished("reset_all") /\ result.status # 500) =>
       /\ result.success
       /\ result.status = 200
       /\ \A e \in Targets : ~HomeResolvable(pre, e) => Homeless(e)

StoreStopsResponding ==
  /\ pc \notin {"idle", "next_bot", "sample", "blocked"}
  /\ pc' = "blocked"
  /\ UNCHANGED <<db, tx, autoinc, loc, result, pre, prev, ops, cls, peer>>

NextLive == Next \/ StoreStopsResponding

SpecLive == Init /\ [][NextLive]_vars /\ WF_vars(Next)

(***************************************************************************)
(* C16.  Every lifecycle operation that has begun its transaction          *)
(* eventually ends, in a commit or in a rollback with an error returned:   *)
(* a handler that is running is eventually idle again, also when the store *)
(* stops answering.                                                        *)
(* (The statement of the claim; no timeout is configured, so a call the    *)
(* store never answers blocks for ever.)                                   *)
(***************************************************************************)
C16_EveryOperationEnds == (pc # "idle") ~> (pc = "idle")

(***************************************************************************)
(* C18.  In reset_one and in each bot's unit of reset_all the writes come  *)
(* in this order: delete the link_assignment rows, then the                *)
(* link_consumption rows of the bot's links, then its links, then the      *)
(* airplane_configuration rows of its airplanes, then its airplanes, then  *)
(* its bases, then its appeals, then update airline_info, then insert the  *)
(* HQ base, then insert the airplanes, then commit.  Stated on every state *)
(* of the handler: at each statement the connection's view holds exactly   *)
(* the writes before it and none after it, and no row refers to a link or  *)
(* airplane that is already deleted.                                       *)
(***************************************************************************)
StepRank(p) ==
  CASE p = "delete_link_assignment" -> 1
    [] p = "delete_link_consumption" -> 2
    [] p = "delete_link" -> 3
    [] p = "delete_airplane_configuration" -> 4
    [] p = "delete_airplane" -> 5
    [] p = "delete_airline_base" -> 6
    [] p = "delete_airline_appeal" -> 7
    [] p = "update_airline_info" -> 8
    [] p = "insert_airline_base" -> 9
    [] p = "sample" -> 10
    [] p = "insert_airplane" -> 11
    [] p = "commit" -> 12
    [] OTHER -> 0

\* rows of table `rows` whose field f refers to one of ids
Referring(rows, f, ids) == {r \in rows : r[f] \in ids}

\* write number k has been applied exactly when the handler is past step k
AppliedExactlyWhenPast(k, before, after) ==
  IF StepRank(pc) <= k THEN before ELSE after

C18_WriteOrder ==
  (loc.op \in {"reset_one", "reset_all"} /\ StepRank(pc) > 0
     /\ (loc.op = "reset_all" => pc # "commit")) =>
     LET e == loc.bot_id
         links == LinkIds(pre, e)
         planes == AirplaneIds(pre, e)
         newBases == {b \in Bases(tx, e) : \A o \in pre.airline_base : o.rid # b.rid}
         newPlanes == {a \in Planes(tx, e) : \A o \in pre.airplane : o.id # a.id}
     IN  /\ AppliedExactlyWhenPast(1,
              Referring(tx.link_assignment, "link", links)
                 = Referring(pre.link_assignment, "link", links),
              Referring(tx.link_assignment, "link", links) = {})
         /\ AppliedExactlyWhenPast(2,
              Referring(tx.link_consumption, "link", links)
                 = Referring(pre.link_consumption, "link", links),
              Referring(tx.link_consumption, "link", links) = {})
         /\ AppliedExactlyWhenPast(3, Links(tx, e) = Links(pre, e), Links(tx, e) = {})
         /\ AppliedExactlyWhenPast(4,
              Referring(tx.airplane_configuration, "airplane", planes)
                 = Referring(pre.airplane_configuration, "airplane", planes),
              Referring(tx.airplane_configuration, "airplane", planes) = {})
         /\ AppliedExactlyWhenPast(5,
              Planes(tx, e) = Planes(pre, e), Planes(tx, e) \cap Planes(pre, e) = {})
         /\ AppliedExactlyWhenPast(6,
              Bases(tx, e) = Bases(pre, e), Bases(tx, e) \cap Bases(pre, e) = {})
         /\ AppliedExactlyWhenPast(7, Appeals(tx, e) = Appeals(pre, e), Appeals(tx, e) = {})
         /\ AppliedExactlyWhenPast(8,
              Infos(tx, e) = Infos(pre, e),
              \A i \in Infos(tx, e) :
                 /\ i.balance = 200000
                 /\ i.reputation = 0
                 /\ i.country_code = loc.country_code)
         /\ AppliedExactlyWhenPast(9,
              newBases = {},
              IF loc.hq_airport # NULL_ID
              THEN Cardinality(newBases) = 1 /\ \A b \in newBases : b.airport = loc.hq_airport
              ELSE newBases = {})
         /\ AppliedExactlyWhenPast(10,
              newPlanes = {},
              Cardinality(newPlanes) + Cardinality(loc.selected) = FleetSize(pre))
         /\ \A r \in tx.link_assignment : \E l \in tx.link : l.id = r.link
         /\ \A r \in tx.link_consumption : \E l \in tx.link : l.id = r.link
         /\ \A r \in tx.airplane_configuration : \E a \in tx.airplane : a.id = r.airplane
         /\ db = pre

\* the second bot's unit of a batch about to insert its airplanes: its
\* links, airplanes and bases are deleted, its new HQ base is in, nothing is
\* committed
C18_Witness ==
  /\ loc.op = "reset_all"
  /\ pc = "insert_airplane"
  /\ Cardinality(loc.processed) = 1
  /\ Links(pre, loc.bot_id) # {}
  /\ Links(tx, loc.bot_id) = {}
  /\ Planes(pre, loc.bot_id) # {}
  /\ loc.hq_airport # NULL_ID
  /\ Cardinality(Bases(tx, loc.bot_id)) = 1
  /\ db = pre

(***************************************************************************)
(* C19.  As claimed: the home airport chosen by a reset or by create_bot   *)
(* carries the country code used and no airport of that code has a larger  *)
(* size, or the same size and a larger population; the code used by a      *)
(* reset is the stored code whenever one is stored, the name's code        *)
(* otherwise; when no airport carries the code there is no home.           *)
(* (The statement of the claim; create_bot with an airport hint takes the  *)
(* hinted airport, whatever its size.)                                     *)
(***************************************************************************)
\* home h is a best airport of code c in store t, or none when c has none
BestOrNone(t, c, h) ==
  IF TopLocations(t, c) = {}
  THEN h = NULL_ID
  ELSE \E a \in TopLocations(t, c) : a.id = h

ResetHomeIsBest ==
  /\ Succeeded("reset_one") =>
       /\ result.country_code = HomeCountry(pre, result.bot_id)
       /\ BestOrNone(pre, result.country_code, result.hq_airport)
  /\ Succeeded("reset_all") =>
       /\ {p.id : p \in result.processed} = Targets
       /\ \A p \in result.processed :
            /\ p.country_code = HomeCountry(pre, p.id)
            /\ BestOrNone(pre, p.country_code, p.hq_airport)
            /\ \A b \in Bases(db, p.id) : b.airport = p.hq_airport

C19_HomeIsBestOfCodeUsed ==
  /\ ResetHomeIsBest
  /\ (Finished("create") /\ result.status # 500) =>
       BestOrNone(pre, result.country_code, result.hq_airport)

(***************************************************************************)
(* C19, amended.  The claim holds of the resets, and of create_bot when    *)
(* no airport hint is given (the code used is the country code given).     *)
(* With a hint create_bot takes the airport with that IATA code, whatever  *)
(* its size and population, the code used is that airport's country code   *)
(* and the country code given is ignored; a hint that names no airport     *)
(* gives no home (and a 404).                                              *)
(***************************************************************************)
C19_HintTakesPrecedence ==
  /\ ResetHomeIsBest
  /\ (Finished("create") /\ result.status # 500) =>
       IF result.airport_iata # NULL /\ result.airport_iata # ""
       THEN IF \E a \in pre.airport : a.iata = result.airport_iata
            THEN \E a \in pre.airport :
                   /\ a.iata = result.airport_iata
                   /\ a.id = result.hq_airport
                   /\ a.country_code = result.country_code
            ELSE result.hq_airport = NULL_ID /\ result.status = 404
       ELSE /\ result.country_code = result.given_country
            /\ BestOrNone(pre, result.given_country, result.hq_airport)
  /\ Succeeded("create") =>
       \A b \in Bases(db, result.airline_id) :
          b.airport = result.hq_airport /\ b.country = result.country_code

\* a create_bot for AU with the hint LAX, which got its home at LAX in the
\* US though JFK has the same size and the larger population
C19_Witness ==
  /\ Succeeded("create")
  /\ result.given_country = "AU"
  /\ result.airport_iata = "LAX"
  /\ result.country_code = "US"
  /\ \E a \in pre.airport : a.id = result.hq_airport /\ a.iata = "LAX"
  /\ \E a \in TopLocations(pre, "US") : a.id # result.hq_airport

(***************************************************************************)
(* C20.  Home resolution is deterministic: two resolutions with the same   *)
(* country code or name over the same airport table give the same          *)
(* airport, also when several airports of the country tie on size and      *)
(* population.  Stated on two successive successful resets of one bot,     *)
(* between which neither the airport table nor the bot's code changes.     *)
(* (The statement of the claim; the ORDER BY of the airport query has no   *)
(* key beyond airport_size and population, so tied rows come in any order.)*)
(***************************************************************************)
SameResolutionInputs ==
  /\ ResetTwice
  /\ prev.country_code = result.country_code
  /\ db.airport = pre.airport

C20_SameInputsSameHome ==
  SameResolutionInputs => result.hq_airport = prev.hq_airport

(***************************************************************************)
(* Two requests at the same time.  The development server answers each     *)
(* request in a thread of its own, each with its own connection            *)
(* (get_db_connection), and the handlers hold no lock of their own: two    *)
(* reset_single_bot calls may overlap.  The second request is `peer`.      *)
(* The store is read-committed with row locks, the least the handlers      *)
(* rely on: a connection sees the committed rows and its own writes; a     *)
(* DELETE or UPDATE waits while a row it matches is deleted, updated or    *)
(* inserted by the other connection's open transaction; an INSERT waits    *)
(* for nothing (no table of the handlers has a key known to the source     *)
(* that two new rows could share).                                         *)
(***************************************************************************)
\* the rows of store a that store b lacks, table by table
Minus(a, b) ==
  [ airline |-> a.airline \ b.airline,
    airline_info |-> a.airline_info \ b.airline_info,
    link |-> a.link \ b.link,
    link_assignment |-> a.link_assignment \ b.link_assignment,
    link_consumption |-> a.link_consumption \ b.link_consumption,
    airplane |-> a.airplane \ b.airplane,
    airplane_configuration |-> a.airplane_configuration \ b.airplane_configuration,
    airline_base |-> a.airline_base \ b.airline_base,
    airline_appeal |-> a.airline_appeal \ b.airline_appeal,
    airport |-> a.airport \ b.airport,
    airplane_model |-> a.airplane_model \ b.airplane_model,
    cycle |-> a.cycle \ b.cycle ]

\* store t without the rows of del and with the rows of ins
Apply(t, del, ins) ==
  [ airline |-> (t.airline \ del.airline) \cup ins.airline,
    airline_info |-> (t.airline_info \ del.airline_info) \cup ins.airline_info,
    link |-> (t.link \ del.link) \cup ins.link,
    link_assignment |-> (t.link_assignment \ del.link_assignment) \cup ins.link_assignment,
    link_consumption |->
      (t.link_consumption \ del.link_consumption) \cup ins.link_consumption,
    airplane |-> (t.airplane \ del.airplane) \cup ins.airplane,
    airplane_configuration |->
      (t.airplane_configuration \ del.airplane_configuration)
         \cup ins.airplane_configuration,
    airline_base |-> (t.airline_base \ del.airline_base) \cup ins.airline_base,
    airline_appeal |-> (t.airline_appeal \ del.airline_appeal) \cup ins.airline_appeal,
    airport |-> (t.airport \ del.airport) \cup ins.airport,
    airplane_model |-> (t.airplane_model \ del.airplane_model) \cup ins.airplane_model,
    cycle |-> (t.cycle \ del.cycle) \cup ins.cycle ]

\* the store as the peer's connection sees it
PeerView == Apply(db, peer.del, peer.ins)

\* the rows the DELETE or UPDATE at step p of a reset of bot_id matches in
\* store t, and the table of store t it works on
Matched(p, t, bot_id) ==
  CASE p = "delete_link_assignment" ->
         {r \in t.link_assignment : r.link \in LinkIds(t, bot_id)}
    [] p = "delete_link_consumption" ->
         {r \in t.link_consumption : r.link \in LinkIds(t, bot_id)}
    [] p = "delete_link" -> {r \in t.link : r.airline = bot_id}
    [] p = "delete_airplane_configuration" ->
         {r \in t.airplane_configuration : r.airplane \in AirplaneIds(t, bot_id)}
    [] p = "delete_airplane" -> {r \in t.airplane : r.owner = bot_id}
    [] p = "delete_airline_base" -> {r \in t.airline_base : r.airline = bot_id}
    [] p = "delete_airline_appeal" -> {r \in t.airline_appeal : r.airline = bot_id}
    [] p = "update_airline_info" -> {r \in t.airline_info : r.airline = bot_id}
    [] OTHER -> {}

TableAt(p, t) ==
  CASE p = "delete_link_assignment" -> t.link_assignment
    [] p = "delete_link_consumption" -> t.link_consumption
    [] p = "delete_link" -> t.link
    [] p = "delete_airplane_configuration" -> t.airplane_configuration
    [] p = "delete_airplane" -> t.airplane
    [] p = "delete_airline_base" -> t.airline_base
    [] p = "delete_airline_appeal" -> t.airline_appeal
    [] p = "update_airline_info" -> t.airline_info
    [] OTHER -> {}

\* the statement at step p, run on view `mine`, has to wait for the other
\* connection, whose open transaction has deleted odel and inserted oins
Waits(p, mine, bot_id, odel, oins) ==
  Matched(p, Apply(mine, EmptyStore, oins), bot_id)
     \cap (TableAt(p, odel) \cup TableAt(p, oins)) # {}

\* the handler of the first request has to wait for the peer
HandlerWaits == Waits(pc, tx, loc.bot_id, peer.del, peer.ins)

\* the peer has to wait for the handler of the first request
PeerWaits == Waits(peer.pc, PeerView, peer.bot_id, Minus(db, tx), Minus(tx, db))

\* reset_single_bot(bot_id) of the peer, up to its first DELETE (a bot)
PeerStart(bot_id) ==
  /\ peer.pc = "idle"
  /\ \E bot \in db.airline :
       /\ bot.id = bot_id
       /\ bot.airline_type = BOT_TYPE
       /\ peer' = [peer EXCEPT
                    !.pc = "delete_link_assignment",
                    !.bot_id = bot_id,
                    !.country_code = ResolveCountry(JoinedCountry(db, bot_id), bot.name),
                    !.current_cycle = CurrentCycle(db),
                    !.cheap_models = CheapModels(db)]
  /\ UNCHANGED <<db, tx, autoinc, pc, loc, result, pre, prev, ops, cls>>

\* the peer's view after its DELETE or UPDATE at step p
PeerWrite(p, v) ==
  CASE p = "delete_link_assignment" -> DeleteLinkAssignment(v, peer.bot_id)
    [] p = "delete_link_consumption" -> DeleteLinkConsumption(v, peer.bot_id)
    [] p = "delete_link" -> DeleteLink(v, peer.bot_id)
    [] p = "delete_airplane_configuration" -> DeleteAirplaneConfiguration(v, peer.bot_id)
    [] p = "delete_airplane" -> DeleteAirplane(v, peer.bot_id)
    [] p = "delete_airline_base" -> DeleteAirlineBase(v, peer.bot_id)
    [] p = "delete_airline_appeal" -> DeleteAirlineAppeal(v, peer.bot_id)
    [] p = "update_airline_info" -> UpdateAirlineInfo(v, peer.bot_id, peer.country_code)

\* the statement after the DELETE or UPDATE at step p
After(p) ==
  CASE p = "delete_link_assignment" -> "delete_link_consumption"
    [] p = "delete_link_consumption" -> "delete_link"
    [] p = "delete_link" -> "delete_airplane_configuration"
    [] p = "delete_airplane_configuration" -> "delete_airplane"
    [] p = "delete_airplane" -> "delete_airline_base"
    [] p = "delete_airline_base" -> "delete_airline_appeal"
    [] p = "delete_airline_appeal" -> "update_airline_info"
    [] p = "update_airline_info" -> "insert_airline_base"

PeerTeardownSteps ==
  { "delete_link_assignment", "delete_link_consumption", "delete_link",
    "delete_airplane_configuration", "delete_airplane", "delete_airline_base",
    "delete_airline_appeal", "update_airline_info" }

\* one DELETE, or the UPDATE, of the peer
PeerStatement ==
  /\ peer.pc \in PeerTeardownSteps
  /\ ~PeerWaits
  /\ LET v == PeerWrite(peer.pc, PeerView)
     IN  peer' = [peer EXCEPT !.pc = After(peer.pc),
                              !.del = Minus(db, v),
                              !.ins = Minus(v, db)]
  /\ UNCHANGED <<db, tx, autoinc, pc, loc, result, pre, prev, ops, cls>>

\* the airport query and `if hq_airport and country_code: INSERT INTO airline_base`
PeerInsertAirlineBase ==
  /\ peer.pc = "insert_airline_base"
  /\ \E hq \in HqAirports(PeerView, peer.country_code) :
       IF hq # NULL_ID /\ Truthy(peer.country_code)
       THEN /\ peer' = [peer EXCEPT
                         !.pc = "sample",
                         !.hq_airport = hq,
                         !.ins = [@ EXCEPT !.airline_base = @ \cup
                                    {NewBase(autoinc.base, hq, peer.bot_id,
                                             peer.current_cycle, peer.country_code)}]]
            /\ autoinc' = [autoinc EXCEPT !.base = @ + 1]
       ELSE /\ peer' = [peer EXCEPT !.pc = "sample", !.hq_airport = hq]
            /\ UNCHANGED autoinc
  /\ UNCHANGED <<db, tx, pc, loc, result, pre, prev, ops, cls>>

\* random.sample(cheap_models, min(5, len(cheap_models)))
PeerSampleModels ==
  /\ peer.pc = "sample"
  /\ \E S \in Samples(peer.cheap_models) :
       peer' = [peer EXCEPT !.selected = S,
                            !.pc = IF S = {} THEN "commit" ELSE "insert_airplane"]
  /\ UNCHANGED <<db, tx, autoinc, pc, loc, result, pre, prev, ops, cls>>

\* one turn of the peer's `for model in selected_models: INSERT INTO airplane`
PeerInsertAirplane ==
  /\ peer.pc = "insert_airplane"
  /\ LET model == CHOOSE m \in peer.selected : \A o \in peer.selected : m.id <= o.id
         left == peer.selected \ {model}
     IN  peer' = [peer EXCEPT
                   !.selected = left,
                   !.pc = IF left = {} THEN "commit" ELSE "insert_airplane",
                   !.ins = [@ EXCEPT !.airplane = @ \cup
                              {NewAirplane(autoinc.airplane, model, peer.bot_id,
                                           peer.current_cycle, peer.hq_airport)}]]
  /\ autoinc' = [autoinc EXCEPT !.airplane = @ + 1]
  /\ UNCHANGED <<db, tx, pc, loc, result, pre, prev, ops, cls>>

\* the peer's conn.commit(): its writes become committed rows, which the
\* first request's connection sees from now on
PeerCommit ==
  /\ peer.pc = "commit"
  /\ db' = PeerView
  /\ tx' = Apply(tx, peer.del, peer.ins)
  /\ peer' = [NoPeer EXCEPT !.pc = "done", !.bot_id = peer.bot_id, !.status = 200]
  /\ UNCHANGED <<autoinc, pc, loc, result, pre, prev, ops, cls>>

\* a statement of the peer raises (a deadlock the store breaks, for one):
\* conn.rollback(), response 500
PeerStorageError ==
  /\ peer.pc \notin {"idle", "done"}
  /\ peer' = [NoPeer EXCEPT !.pc = "done", !.bot_id = peer.bot_id, !.status = 500]
  /\ UNCHANGED <<db, tx, autoinc, pc, loc, result, pre, prev, ops, cls>>

InitOverlap ==
  /\ db = WorldNoCode
  /\ tx = db
  /\ autoinc = NextIds(db)
  /\ pc = "idle"
  /\ loc = NoLocals
  /\ result = NoResult
  /\ pre = db
  /\ prev = NoResult
  /\ ops = 0
  /\ cls = NoCall
  /\ peer = NoPeer

NextOverlap ==
  \/ \E bot_id \in {a.id : a \in db.airline} : StartResetOne(bot_id)
  \/ (~HandlerWaits /\ ExecDeleteLinkAssignment)
  \/ (~HandlerWaits /\ ExecDeleteLinkConsumption)
  \/ (~HandlerWaits /\ ExecDeleteLink)
  \/ (~HandlerWaits /\ ExecDeleteAirplaneConfiguration)
  \/ (~HandlerWaits /\ ExecDeleteAirplane)
  \/ (~HandlerWaits /\ ExecDeleteAirlineBase)
  \/ (~HandlerWaits /\ ExecDeleteAirlineAppeal)
  \/ (~HandlerWaits /\ ExecUpdateAirlineInfo)
  \/ ExecInsertAirlineBase
  \/ SampleModels
  \/ ExecInsertAirplane
  \/ Commit
  \/ StorageError
  \/ \E bot_id \in {a.id : a \in db.airline} : PeerStart(bot_id)
  \/ PeerStatement
  \/ PeerInsertAirlineBase
  \/ PeerSampleModels
  \/ PeerInsertAirplane
  \/ PeerCommit
  \/ PeerStorageError

SpecOverlap == InitOverlap /\ [][NextOverlap]_vars

(***************************************************************************)
(* C17.  Whatever resets and creations have been committed, one after the  *)
(* other or overlapping, every airline that has a base has exactly one     *)
(* headquarters, and an airline whose resets have all committed has at     *)
(* most 5 unsold airplanes.                                                *)
(* (The statement of the claim; two overlapping resets of a bot that has   *)
(* no airplane each insert a fleet.)                                       *)
(***************************************************************************)
\* no request is being served
Quiet == pc = "idle" /\ peer.pc \in {"idle", "done"}

\* the last reset of airline e, by either request, has committed
ResetCommitted(e) ==
  \/ result.op = "reset_one" /\ result.success /\ result.bot_id = e
  \/ peer.status = 200 /\ peer.bot_id = e

C17_OneHqAtMostFiveAssets ==
  Quiet =>
     \A a \in db.airline :
        /\ Bases(db, a.id) # {} =>
             Cardinality({b \in Bases(db, a.id) : b.headquarter = 1}) = 1
        /\ ResetCommitted(a.id) =>
             Cardinality({p \in Planes(db, a.id) : p.is_sold = 0}) <= 5

(***************************************************************************)
(* C21.  reset_single_bot(E) changes only rows owned by E: the links, link *)
(* assignments, link consumptions, airplanes, airplane configurations,     *)
(* bases, appeals and airline_info rows of every other airline are the     *)
(* same after the call as before it, the airport, airplane_model and cycle *)
(* tables are unchanged, and no airline row is deleted or modified by      *)
(* reset_single_bot, reset_bots or create_bot (create_bot only adds one).  *)
(***************************************************************************)
AirlineIds(t) == {a.id : a \in t.airline}

C21_ResetOneFrame ==
  /\ Finished("reset_one") =>
       /\ \A o \in AirlineIds(pre) \ {result.bot_id} : EntityRows(db, o) = EntityRows(pre, o)
       /\ db.airport = pre.airport
       /\ db.airplane_model = pre.airplane_model
       /\ db.cycle = pre.cycle
  /\ (Finished("reset_one") \/ Finished("reset_all")) => db.airline = pre.airline
  /\ Finished("create") =>
       /\ pre.airline \subseteq db.airline
       /\ Cardinality(db.airline \ pre.airline) <= 1
  /\ pc \notin {"idle", "blocked"} => pre.airline \subseteq tx.airline

\* airline 1 of the three-bot store has been reset: its own rows changed while
\* airlines 2 and 4 own links, airplanes and bases
C21_Witness ==
  /\ Succeeded("reset_one")
  /\ result.bot_id = 1
  /\ pre = WorldThreeBots
  /\ EntityRows(db, 1) # EntityRows(pre, 1)
  /\ Links(pre, 1) # {} /\ Links(db, 1) = {}
  /\ Links(db, 2) # {} /\ Planes(db, 4) # {} /\ Bases(db, 4) # {}

(***************************************************************************)
(* C22.  The summary of a successful reset_single_bot(E) is faithful to    *)
(* what the transaction did: the numbers of routes, aircraft and bases it  *)
(* reports as deleted are the numbers of link, airplane and airline_base   *)
(* rows E had before the call, the number of aircraft it reports as added  *)
(* is the number of airplane rows inserted, and it reports that a new HQ   *)
(* was created if and only if an airline_base row was inserted.            *)
(***************************************************************************)
\* the rows of airline e the finished operation inserted
PlanesInserted(e) == Planes(db, e) \ Planes(pre, e)

BasesInserted(e) == Bases(db, e) \ Bases(pre, e)

\* the counts of the summary
C22_CountsAreFaithful ==
  Succeeded("reset_one") =>
     LET e == result.bot_id
     IN  /\ result.routes_deleted = Cardinality(Links(pre, e))
         /\ result.aircraft_deleted = Cardinality(Planes(pre, e))
         /\ result.bases_deleted = Cardinality(Bases(pre, e))
         /\ result.aircraft_added = Cardinality(PlanesInserted(e))

C22_SummaryIsFaithful ==
  /\ C22_CountsAreFaithful
  /\ Succeeded("reset_one") =>
        (result.hq_created <=> BasesInserted(result.bot_id) # {})

(***************************************************************************)
(* C23.  A successful create_bot(name, country_code, airport_iata) adds    *)
(* exactly one airline, of type 2 (bot), with one airline_info row at the   *)
(* defaults (balance 200000, reputation 0, service quality 50) and one     *)
(* airline_base row, a headquarter of scale 1 in the stored country, and   *)
(* returns that airline's id.  With an airport_iata the base is at exactly *)
(* the airport of that code and the stored country code is that airport's, *)
(* whatever country_code was given; only without one is a best airport of  *)
(* the given country_code used.                                            *)
(***************************************************************************)
C23_CreateAddsOneBot ==
  Succeeded("create") =>
     /\ Cardinality(db.airline \ pre.airline) = 1
     /\ \A a \in db.airline \ pre.airline :
          /\ a.airline_type = 2
          /\ a.id = result.airline_id
          /\ a.id \notin AirlineIds(pre)
          /\ Cardinality(Infos(db, a.id)) = 1
          /\ \A i \in Infos(db, a.id) :
               /\ i.balance = 200000 /\ i.reputation = 0 /\ i.service_quality = 50
               /\ \A b \in Bases(db, a.id) : i.country_code = b.country
          /\ Cardinality(Bases(db, a.id)) = 1
          /\ \A b \in Bases(db, a.id) :
               /\ b.scale = 1 /\ b.headquarter = 1
               /\ IF result.airport_iata # NULL
                  THEN \E p \in pre.airport :
                         /\ p.iata = result.airport_iata
                         /\ p.id = b.airport
                         /\ p.country_code = b.country
                  ELSE /\ b.country = result.given_country
                       /\ \E p \in TopLocations(pre, result.given_country) : p.id = b.airport

\* a create_bot given the country FR, which no airport carries, and the hint
\* LAX: the new bot has its profile at the defaults with the code US
C23_Witness ==
  /\ Succeeded("create")
  /\ result.given_country = "FR"
  /\ result.airport_iata = "LAX"
  /\ \E a \in db.airline \ pre.airline :
       /\ a.airline_type = 2
       /\ \E i \in Infos(db, a.id) : i.country_code = "US" /\ i.balance = 200000
       /\ \E b \in Bases(db, a.id) : b.airport = 2 /\ b.scale = 1

\* a create_bot without a hint, whose base is at a best airport of the
\* country given
C23_WitnessNoHint ==
  /\ Succeeded("create")
  /\ result.airport_iata = NULL
  /\ result.given_country = "AU"
  /\ \E a \in db.airline \ pre.airline :
       \E b \in Bases(db, a.id) : b.airport \in {4, 5} /\ b.country = "AU"

(***************************************************************************)
(* C24.  reset_bots() on a store with no airline of type 2 returns success *)
(* and leaves every table as it was; a successful reset_bots() over n >= 1 *)
(* bots reports as reset exactly the names of those n airlines, and its    *)
(* totals of routes, aircraft and bases deleted, of HQs created and of     *)
(* aircraft added are the sums over the bots of the rows each one had      *)
(* before the call and of the rows inserted for it.                        *)
(***************************************************************************)
\* the rows of the owned table `rows` whose owner (field f) is one of ids;
\* every row has one owner, so its size is the sum of the per-owner counts
OwnedBy(rows, ids, Owner(_)) == {r \in rows : Owner(r) \in ids}

AirlineOf(r) == r.airline

OwnerOf(r) == r.owner

C24_BatchSummary ==
  /\ (Finished("reset_all") /\ BotRows(pre) = {}) =>
        /\ Succeeded("reset_all")
        /\ db = pre
        /\ tx = pre
        /\ result.bots_reset = {}
        /\ result.routes_deleted = 0 /\ result.aircraft_deleted = 0
        /\ result.bases_deleted = 0 /\ result.aircraft_added = 0
        /\ result.hqs_created = 0
  /\ (Succeeded("reset_all") /\ BotRows(pre) # {}) =>
        /\ result.bots_reset = {NameOf(pre, e) : e \in Targets}
        /\ result.n_bots = Cardinality(Targets)
        /\ {p.id : p \in result.processed} = Targets
        /\ result.routes_deleted = Cardinality(OwnedBy(pre.link, Targets, AirlineOf))
        /\ result.aircraft_deleted = Cardinality(OwnedBy(pre.airplane, Targets, OwnerOf))
        /\ result.bases_deleted = Cardinality(OwnedBy(pre.airline_base, Targets, AirlineOf))
        /\ result.aircraft_added =
              Cardinality(OwnedBy(db.airplane \ pre.airplane, Targets, OwnerOf))
        /\ result.hqs_created =
              Cardinality(OwnedBy(db.airline_base \ pre.airline_base, Targets, AirlineOf))

\* the batch reset of the three bots of the three-bot store: three routes, three
\* aircraft and four bases deleted over bots that had 2+1+0, 2+1+0 and 2+1+1
\* of them, two HQs created (the third bot's country has no airport)
C24_Witness ==
  /\ Succeeded("reset_all")
  /\ pre = WorldThreeBots
  /\ result.n_bots = 3
  /\ Cardinality(result.bots_reset) = 3
  /\ result.routes_deleted = 3 /\ result.aircraft_deleted = 3
  /\ result.bases_deleted = 4 /\ result.hqs_created = 2
  /\ result.aircraft_added = 6

\* the batch reset of a store without bots
C24_WitnessNoBots ==
  /\ Succeeded("reset_all")
  /\ pre = WorldNoBots
  /\ db = WorldNoBots

(***************************************************************************)
(* C25.  After every successful reset_single_bot, reset_bots or create_bot *)
(* the HQ base of each airline worked on (when it has one) is consistent   *)
(* with its airline_info row and its fleet: the base's country equals the  *)
(* country code stored in airline_info, the base's airport carries that    *)
(* country code, and every airplane the operation inserted has that        *)
(* airport as home; conversely, if the stored country code has at least    *)
(* one airport, the airline has an HQ base.                                *)
(***************************************************************************)
HqBases(t, e) == {b \in Bases(t, e) : b.headquarter = 1}

\* airline e of the committed store: its HQ base agrees with its profile, its
\* airport and the airplanes inserted for it
HqAgrees(e) ==
  \A b \in HqBases(db, e) :
     /\ Infos(db, e) # {}
     /\ \A i \in Infos(db, e) : i.country_code = b.country
     /\ \E p \in db.airport : p.id = b.airport /\ p.country_code = b.country
     /\ \A a \in PlanesInserted(e) : a.home = b.airport

\* a stored country code some airport carries comes with an HQ base
HqPresent(e) ==
  \A i \in Infos(db, e) :
     (\E p \in db.airport : p.country_code = i.country_code) => HqBases(db, e) # {}

C25_HqConsistent ==
  (Succeeded("reset_one") \/ Succeeded("reset_all") \/ Succeeded("create")) =>
     \A e \in Targets : HqAgrees(e) /\ HqPresent(e)

\* the same for the airlines that have an airline_info row
C25_HqConsistentWithProfile ==
  (Succeeded("reset_one") \/ Succeeded("reset_all") \/ Succeeded("create")) =>
     \A e \in Targets : Infos(db, e) # {} => HqAgrees(e) /\ HqPresent(e)

=============================================================================
